---- MODULE Spec2Model ----
(***************************************************************************)
(* PDF ingestion pipeline of QuizGen AI: text-layer extraction             *)
(* (utils/pdfUtils.ts), the OCR fallback (utils/ocrUtils.ts), and the glue  *)
(* that owns the document handle (App.tsx, components/OCRRunner.tsx).       *)
(*                                                                         *)
(* Strings are sequences of one-character tokens.  "SP" is a space, "LF" a  *)
(* line feed, "NBSP" U+00A0, "CTL" a control character of the class         *)
(* [\x00-\x08\x0B\x0C\x0E-\x1F\x7F], "FI" the ligature U+FB01; every other  *)
(* token is the printable character it spells.                              *)
(***************************************************************************)
EXTENDS Integers, Sequences, FiniteSets, TLC

\* ------------------------------------------------------------------ bounds
MaxPages == 3
MaxRuns == 5
LongLen == 16
MaxDocs == 2
AppMaxPages == 2
LoadTotal == 2
MaxCap == 2
MaxBatch == 2
MaxPixels == 2      \* pixels of a rendered page image
MaxSelects == 2     \* files selected for the cloud upload
MaxChapters == 2    \* chapters of a generated quiz
MaxPrevious == 1    \* earlier quizzes whose questions are passed as previousQuestions

\* ------------------------------------------------------- program constants
MIN_CHARS_TOTAL == 100
MIN_ITEMS_TOTAL == 10
DefaultMaxPages == 70
DefaultBatchSize == 5
RunnerMaxPages == 50
MaxCloudBytes == 52428800       \* 50 * 1024 * 1024
MIN_FILE_CHARS == 50
DefaultQuestionCount == 20      \* targetQuestionCount ? ... : "20"
FallbackFloor == 20             \* Math.max(20, ...)
MinQuestionCount == 5           \* the range input of DifficultySelector
MaxQuestionCount == 50
QuestionCountStep == 5

Docs == 1..MaxDocs

\* ------------------------------------------------------------ string model
IsWhitespace(c) == c \in {"SP", "LF", "NBSP", "TAB"}

IsControl(c) == c = "CTL"

IsWord(c) ==
    c \in {"a", "f", "i", "P", "g", "e", "O", "C", "R", "0", "1", "2", "3", "4", "5", "6", "7", "8", "9",
           "H", "l", "o", "w", "r", "d", "S", "c", "n", "p", "t", "x"}

\* concatenation of a sequence of strings, by halves
RECURSIVE Flatten(_)
Flatten(ss) ==
    IF Len(ss) = 0 THEN <<>>
    ELSE IF Len(ss) = 1 THEN ss[1]
    ELSE LET h == Len(ss) \div 2
         IN Flatten(SubSeq(ss, 1, h)) \o Flatten(SubSeq(ss, h + 1, Len(ss)))

\* the positions a sequence of flags marks, in order
Positions(keep) == SelectSeq([j \in 1..Len(keep) |-> j], LAMBDA j : keep[j])

\* String.prototype.trim: the text between the first and the last character that
\* is not white space
Trim(s) ==
    LET n == Len(s)
    IN IF \A j \in 1..n : IsWhitespace(s[j]) THEN <<>>
       ELSE LET first == CHOOSE j \in 1..n :
                            ~IsWhitespace(s[j]) /\ \A k \in 1..(j - 1) : IsWhitespace(s[k])
                back == CHOOSE m \in 1..n :
                            /\ ~IsWhitespace(s[n + 1 - m])
                            /\ \A k \in 1..(m - 1) : IsWhitespace(s[n + 1 - k])
            IN SubSeq(s, first, n + 1 - back)

\* .replace(/[\x00-\x08\x0B\x0C\x0E-\x1F\x7F]/g, '')
StripControl(s) == SelectSeq(s, LAMBDA c : ~IsControl(c))

\* .normalize('NFKC'): compatibility characters are replaced by their expansion
NFKCChar(c) ==
    CASE c = "NBSP" -> <<"SP">>
      [] c = "FI" -> <<"f", "i">>
      [] OTHER -> <<c>>

NFKC(s) == Flatten([j \in 1..Len(s) |-> NFKCChar(s[j])])

IsBlank(c) == c \in {"SP", "TAB"}

\* .replace(/[ \t]+/g, ' '): the first character of every run of blanks stays, as a space
CollapseSpaces(s) ==
    LET keep == Positions([j \in 1..Len(s) |-> ~(IsBlank(s[j]) /\ j > 1 /\ IsBlank(s[j - 1]))])
    IN [m \in 1..Len(keep) |-> IF IsBlank(s[keep[m]]) THEN "SP" ELSE s[keep[m]]]

\* .replace(/(\w+)-\n(\w+)/g, '$1$2'): position j holds the hyphen of a match when a
\* word character precedes it, "\n" and a word character follow it, and the word
\* before it was not consumed as the second group of the match before
Dehyphenate(s) ==
    LET WordStart(j) == CHOOSE k \in 1..j :
                            /\ \A m \in k..j : IsWord(s[m])
                            /\ (k = 1 \/ ~IsWord(s[k - 1]))
        match[j \in 1..Len(s)] ==
            /\ s[j] = "-"
            /\ j > 1
            /\ j + 2 <= Len(s)
            /\ IsWord(s[j - 1])
            /\ s[j + 1] = "LF"
            /\ IsWord(s[j + 2])
            /\ LET k == WordStart(j - 1)
               IN ~(k > 2 /\ s[k - 1] = "LF" /\ match[k - 2])
        keep == Positions([j \in 1..Len(s) |-> ~(match[j] \/ (j > 1 /\ match[j - 1]))])
    IN [m \in 1..Len(keep) |-> s[keep[m]]]

cleanText(text) ==
    IF text = <<>> THEN <<>>
    ELSE Trim(Dehyphenate(CollapseSpaces(NFKC(StripControl(text)))))

RECURSIVE Digits(_)
Digits(n) ==
    LET d == <<"0", "1", "2", "3", "4", "5", "6", "7", "8", "9">>[(n % 10) + 1]
    IN IF n < 10 THEN <<d>> ELSE Digits(n \div 10) \o <<d>>

Min(a, b) == IF a <= b THEN a ELSE b

\* Math.round((a / b) * 100)
RoundPercent(a, b) == (200 * a + b) \div (2 * b)

\* `--- Page ${i} ---\n`
PageMarker(i) ==
    <<"-", "-", "-", "SP", "P", "a", "g", "e", "SP">> \o Digits(i) \o <<"SP", "-", "-", "-", "LF">>

\* `--- Page ${p} (OCR) ---\n`
OcrPageMarker(p) ==
    <<"-", "-", "-", "SP", "P", "a", "g", "e", "SP">> \o Digits(p)
        \o <<"SP", "(", "O", "C", "R", ")", "SP", "-", "-", "-", "LF">>

\* ---------------------------------------------------------------- messages
\* An error message is a sequence of text parts; concatenation is \o.
EmptyFileMsg == <<"File trong (0 bytes).">>
EmptyDocumentMsg == <<"File PDF khong co trang nao.">>
ScannedMsg == <<"File PDF giong hinh anh scan.">>
EncodingMsg == <<"Loi Font/Encoding: Van ban khong the giai ma.">>
PasswordMsg == <<"File PDF duoc bao ve bang mat khau.">>
InvalidFormatMsg == <<"File khong dung dinh dang PDF hoac bi hong.">>
LibraryLoadMsg == <<"Khong the tai thu vien xu ly PDF.">>
GenericReadMsg == <<"Da xay ra loi khi doc file PDF.">>
OcrFailedPrefix == <<"OCR that bai: ">>
OcrAbortedMsg == <<"OCR_ABORTED">>
OcrCancelledMsg == <<"Da huy qua trinh OCR.">>
OcrNoTextMsg == <<"OCR hoan tat nhung khong tim thay van ban nao.">>
OcrMemoryMsg == <<"Tesseract Memory Error: Trinh duyet khong du bo nho de xu ly anh nay.">>
OcrGenericPrefix == <<"Loi xu ly OCR: ">>
OcrUnknownPart == <<"Loi khong xac dinh">>

\* String.prototype.includes on the parts the model uses
PartsWith(needle) ==
    CASE needle = "password" -> {"No password given", "Incorrect Password"}
      [] needle = "Failed to fetch" -> {"Failed to fetch"}
      [] needle = "dynamically imported module" -> {"error loading dynamically imported module"}
      [] needle = "NetworkError" -> {"NetworkError when attempting to fetch resource."}
      [] needle = "Tesseract" -> {OcrMemoryMsg[1]}
      [] needle = "memory" -> {"Out of memory"}
      [] needle = "403" -> {"403"}
      [] needle = "400" -> {"400"}
      [] needle = "404" -> {"404"}
      [] needle = "413" -> {"413"}
      [] needle = "JSON" -> {"Unexpected token } in JSON at position 1",
                             "Invalid JSON payload received."}
      [] needle = "wasm" -> {"Aborted(). Build with -sASSERTIONS for more info. wasm"}
      [] OTHER -> {}

Includes(msg, needle) == \E j \in 1..Len(msg) : msg[j] \in PartsWith(needle)

NoError == [name |-> "", code |-> "", msg |-> <<>>, pdfDoc |-> 0]

Err(msg) == [name |-> "Error", code |-> "", msg |-> msg, pdfDoc |-> 0]

\* ------------------------------------------------------------------ inputs
Item(str, hasEOL) == [str |-> str, hasEOL |-> hasEOL]

Rep(it, k) == [j \in 1..k |-> it]

LongWord == [j \in 1..LongLen |-> "a"]

\* the texts "Hello world" and "Second page text"
HelloWorld == <<"H", "e", "l", "l", "o", "SP", "w", "o", "r", "l", "d">>

SecondPageText ==
    <<"S", "e", "c", "o", "n", "d", "SP", "p", "a", "g", "e", "SP", "t", "e", "x", "t">>

\* Text runs a page of the text layer can hold.
RichPages ==
    {<<>>, <<Item(HelloWorld, TRUE)>>, <<Item(SecondPageText, TRUE)>>}
    \cup {Rep(Item(LongWord, FALSE), k) : k \in 1..MaxRuns}
    \cup {Rep(Item(<<"CTL", "CTL">>, TRUE), k) : k \in 1..MaxRuns}
    \cup {Rep(Item(<<"NBSP", "SP">>, FALSE), MaxRuns)}
    \cup {<<Item(<<"a">>, FALSE)>>,
          <<Item(<<"FI">>, FALSE)>>,
          <<Item(<<>>, TRUE), Item(<<"SP">>, FALSE)>>,
          <<Item(<<"a", "-">>, TRUE), Item(<<"a">>, FALSE)>>}

AppPages ==
    {<<>>,
     Rep(Item(LongWord, FALSE), MaxRuns),
     Rep(Item(<<"CTL", "CTL">>, TRUE), MaxRuns)}

PageInputs(m) == IF m = "direct" THEN RichPages ELSE AppPages

PageCounts(m) == IF m = "direct" THEN 0..MaxPages ELSE 0..AppMaxPages

\* Rejections of loadingTask.promise
OpenErrors ==
    {[name |-> "PasswordException", code |-> "", msg |-> <<"No password given">>, pdfDoc |-> 0],
     [name |-> "InvalidPDFException", code |-> "", msg |-> <<"Invalid PDF structure.">>, pdfDoc |-> 0],
     [name |-> "FormatError", code |-> "", msg |-> <<"Bad encoding in flate stream">>, pdfDoc |-> 0],
     [name |-> "Error", code |-> "",
      msg |-> <<"Setting up fake worker failed: ", "error loading dynamically imported module">>,
      pdfDoc |-> 0],
     [name |-> "TypeError", code |-> "",
      msg |-> <<"NetworkError when attempting to fetch resource.">>, pdfDoc |-> 0],
     [name |-> "Error", code |-> "", msg |-> <<"Failed to fetch">>, pdfDoc |-> 0],
     [name |-> "UnknownErrorException", code |-> "", msg |-> <<>>, pdfDoc |-> 0]}

\* Texts worker.recognize can return for a page
RecognizedTexts == {<<>>, <<"SP", "LF">>, <<"a">>}

PlainPageError == <<"Rendering cancelled">>
MemoryPageError == <<"Out of memory">>
WasmPageError == <<"Aborted(). Build with -sASSERTIONS for more info. wasm">>
WorkerInitError == <<"Failed to load language data">>

\* ------------------------------------------------------------------- state
VARIABLES
    mode,        \* "direct": one call of extractTextFromPDF; "App": the application
    handle,      \* PDFDocumentProxy of each document: "unopened", "open", "destroyed"
    docPages,    \* PDFDocumentProxy.numPages of each document
    destroyed,   \* number of destroy() calls on each document
    staleUse,    \* pages fetched or rendered from a destroyed document
    ext,         \* the running call of extractTextFromPDF
    ocr,         \* the call of runOCRFromPDF on each document
    signal,      \* AbortController of the OCRRunner of each document
    appState,    \* App: AppState
    showOCR,     \* App: showOCR
    scannedPDF,  \* App: scannedPDF, 0 for null
    scannedFileName,    \* App: scannedFileName, the document it names
    uploadedFileNames,  \* App: uploadedFileNames, by document
    extractedText,      \* App: extractedText, the blocks appended to it
    errorMsg,    \* App: errorMsg, <<>> for null
    upload,      \* the running call of App.handleFileUpload
    isRunning,   \* OCRRunner: isRunning of the mounted instance
    nextDoc,     \* the next file the user can select
    currentFileUri,     \* App: currentFileUri, the document it names, 0 for null
    notified,    \* what the OCRRunner of each document did when its run settled
    fileUpload,  \* FileUpload: the state of the component and what it called
    gen,         \* the running call of generateQuizFromText
    quiz         \* QuizPlayer: the state of the mounted component

appVars == <<appState, showOCR, scannedPDF, scannedFileName, uploadedFileNames, extractedText,
             errorMsg, upload, isRunning, nextDoc, notified, currentFileUri>>

vars == <<mode, handle, docPages, destroyed, staleUse, ext, ocr, signal, appVars, fileUpload,
          gen, quiz>>

NoOutcome == [kind |-> "none", error |-> NoError, text |-> <<>>, pdfDoc |-> 0, via |-> ""]

\* what is kept of an earlier call on the same file
NoFirst == [outcome |-> NoOutcome, timedOut |-> {}]

ExtIdle ==
    [pc |-> "idle", doc |-> 0, enableOCR |-> FALSE, numPages |-> 0, i |-> 0,
     fullText |-> <<>>, totalItems |-> 0, blankDoc |-> TRUE, branch |-> "",
     outcome |-> NoOutcome, loaded |-> 0, progress |-> <<>>, withText |-> {}, timedOut |-> {},
     byteLength |-> 0, cause |-> NoError,
     run |-> 1, content |-> <<>>, first |-> NoFirst]

NoResult == [kind |-> "none", msg |-> <<>>, text |-> <<>>]

OcrIdle ==
    [pc |-> "idle", caller |-> "", maxPages |-> 0, batchSize |-> 0, numPages |-> 0,
     i |-> 0, p |-> 0, batchEnd |-> 0, fullText |-> <<>>, failedPages |-> 0,
     worker |-> "none", created |-> 0, result |-> NoResult,
     lastCheck |-> "none", afterAbort |-> 0, log |-> <<>>, progress |-> <<>>,
     yields |-> 0, sinceYield |-> 0,
     enhance |-> FALSE, raster |-> <<>>, canvas |-> <<>>, enhanced |-> ""]

\* ------------------------------------------------- runOCRFromPDF (ocrUtils.ts)
\* signal?.aborted
Aborted(sig) == sig = "aborted"

\* catch (error): the error the call rejects with
MapOcrError(msg) ==
    IF msg = OcrAbortedMsg THEN OcrCancelledMsg
    ELSE IF Includes(msg, "Tesseract") THEN msg
    ELSE OcrGenericPrefix \o (IF msg = <<>> THEN OcrUnknownPart ELSE msg)

\* throw inside the try block: control reaches the finally block with the
\* mapped error pending
Throw(o, msg) ==
    [o EXCEPT !.pc = "terminate",
              !.result = [kind |-> "error", msg |-> MapOcrError(msg), text |-> <<>>]]

\* if (signal?.aborted) throw new Error("OCR_ABORTED") at the head of the batch loop
BatchAbortCheck(o, sig) == Aborted(sig)

\* mutant: the page loop has no check of its own
PageAbortCheckMissing(o, sig) == FALSE

\* if (signal?.aborted) throw new Error("OCR_ABORTED") at the head of the page loop
PageAbortCheck(o, sig) == Aborted(sig)

\* mutant: the accumulated text is returned without the no-text test
AfterLoopNoCheck(o) ==
    [o EXCEPT !.pc = "terminate",
              !.result = [kind |-> "text", msg |-> <<>>, text |-> o.fullText]]

\* after the batch loop: the no-text failure or the accumulated text
AfterLoop(o) ==
    IF Trim(o.fullText) = <<>> /\ o.numPages > 0
    THEN Throw(o, OcrNoTextMsg)
    ELSE [o EXCEPT !.pc = "terminate",
                   !.result = [kind |-> "text", msg |-> <<>>, text |-> o.fullText]]

\* mutant: the check leaves the loop instead of throwing
OnAbortBreak(o) == AfterLoop([o EXCEPT !.lastCheck = "aborted"])

\* the statement executed when a check finds the signal set
OnAbort(o) == Throw([o EXCEPT !.lastCheck = "aborted"], OcrAbortedMsg)

\* history of the page loop: one entry for every page whose try block was entered
PageEntry(p, how, msg, text) == [p |-> p, how |-> how, msg |-> msg, text |-> text]

\* the try block of page o.p is entered: renderPageToCanvas(pdfDoc, p, ...) is called
PageStart(o) ==
    [o EXCEPT !.pc = "getPage", !.lastCheck = "clear",
              !.log = Append(o.log, PageEntry(o.p, "started", <<>>, <<>>)),
              !.sinceYield = o.sinceYield + 1]

\* the iteration of the page in flight ends: "text", "empty", "blob" or "error"
PageEnd(o, how, msg, text) ==
    [o EXCEPT !.log = [o.log EXCEPT ![Len(o.log)] = PageEntry(o.p, how, msg, text)],
              !.raster = <<>>, !.canvas = <<>>, !.enhanced = ""]

\* head of the page loop: for (let p = i; p <= batchEnd; p++)
PageLoop(o, sig) ==
    IF o.p > o.batchEnd THEN [o EXCEPT !.pc = "yield"]
    ELSE IF PageAbortCheck(o, sig) THEN OnAbort(o)
    ELSE PageStart(o)

\* mutant: the batch ends one page late, on the first page of the next batch
BatchLoopOverlap(o, sig) ==
    IF o.i > o.numPages THEN AfterLoop(o)
    ELSE IF BatchAbortCheck(o, sig) THEN OnAbort(o)
    ELSE LET b == Min(o.i + o.batchSize, o.numPages)
         IN PageLoop([o EXCEPT !.batchEnd = b, !.p = o.i, !.lastCheck = "clear"], sig)

\* mutant: one batch holds all the pages that are left
BatchLoopNoBatches(o, sig) ==
    IF o.i > o.numPages THEN AfterLoop(o)
    ELSE IF BatchAbortCheck(o, sig) THEN OnAbort(o)
    ELSE PageLoop([o EXCEPT !.batchEnd = o.numPages, !.p = o.i, !.lastCheck = "clear"], sig)

\* head of the batch loop: for (let i = 1; i <= numPages; i += batchSize)
BatchLoop(o, sig) ==
    IF o.i > o.numPages THEN AfterLoop(o)
    ELSE IF BatchAbortCheck(o, sig) THEN OnAbort(o)
    ELSE LET b == Min(o.i + o.batchSize - 1, o.numPages)
         IN PageLoop([o EXCEPT !.batchEnd = b, !.p = o.i, !.lastCheck = "clear"], sig)

\* the page loop moves on to the next page
PageDone(o, sig) ==
    PageLoop([o EXCEPT !.p = o.p + 1,
                       !.afterAbort = IF Aborted(sig) THEN o.afterAbort + 1 ELSE o.afterAbort],
             sig)

\* mutant: every page error ends the run
PageFailedAlwaysFatal(o, msg, sig) ==
    Throw(PageEnd([o EXCEPT !.failedPages = o.failedPages + 1], "error", msg, <<>>), OcrMemoryMsg)

\* mutant: no page error ends the run
PageFailedNeverFatal(o, msg, sig) ==
    PageDone(PageEnd([o EXCEPT !.failedPages = o.failedPages + 1], "error", msg, <<>>), sig)

\* catch (pageErr)
PageFailed(o, msg, sig) ==
    LET f == PageEnd([o EXCEPT !.failedPages = o.failedPages + 1], "error", msg, <<>>)
    IN IF Includes(msg, "memory") \/ Includes(msg, "wasm")
       THEN Throw([f EXCEPT !.afterAbort = IF Aborted(sig) THEN f.afterAbort + 1 ELSE f.afterAbort],
                  OcrMemoryMsg)
       ELSE PageDone(f, sig)

\* mutant: the worker is left running
FinallyNoTerminate(w) == w

\* finally { if (worker) await worker.terminate(); }
FinallyWorker(w) == IF w = "active" THEN "terminated" ELSE w

\* the call: options destructured, control stops at await createWorker(lang)
OcrCall(caller, maxPages, batchSize) ==
    [OcrIdle EXCEPT !.pc = "createWorker", !.caller = caller,
                    !.maxPages = maxPages, !.batchSize = batchSize, !.enhance = TRUE]

\* pdfDoc.getPage or page.render is called in this step: on a destroyed document
\* the call is recorded as a stale use
UseHandle(d) ==
    LET issued == /\ ocr'[d].pc \in {"getPage", "render"}
                  /\ (ocr'[d].pc # ocr[d].pc \/ ocr'[d].p # ocr[d].p)
    IN staleUse' = [staleUse EXCEPT ![d] = staleUse[d] \/ (issued /\ handle[d] = "destroyed")]

OcrCreateWorker(d) ==
    /\ ocr[d].pc = "createWorker"
    /\ \/ LET o == [ocr[d] EXCEPT !.worker = "active", !.created = ocr[d].created + 1,
                                  !.numPages = Min(docPages[d], ocr[d].maxPages), !.i = 1]
          IN ocr' = [ocr EXCEPT ![d] = BatchLoop(o, signal[d])]
       \/ ocr' = [ocr EXCEPT ![d] = Throw(ocr[d], WorkerInitError)]
    /\ UseHandle(d)
    /\ UNCHANGED <<mode, handle, docPages, destroyed, ext, signal, appVars, fileUpload, gen, quiz>>

\* await pdfDoc.getPage(pageNum) in renderPageToCanvas
OcrGetPage(d) ==
    /\ ocr[d].pc = "getPage"
    /\ \/ ocr' = [ocr EXCEPT ![d].pc = "render"]
       \/ ocr' = [ocr EXCEPT ![d] = PageFailed(ocr[d], PlainPageError, signal[d])]
    /\ UseHandle(d)
    /\ UNCHANGED <<mode, handle, docPages, destroyed, ext, signal, appVars, fileUpload, gen, quiz>>

\* ---------------------------------------- applyImagePreprocessing (ocrUtils.ts)
\* one RGBA pixel of ImageData.data, every channel in 0..255
Pixel(r, g, b, a) == [r |-> r, g |-> g, b |-> b, a |-> a]

\* 0.299 * r + 0.587 * g + 0.114 * b, in thousandths
Luma1000(px) == 299 * px.r + 587 * px.g + 114 * px.b

\* the store of a number into a Uint8ClampedArray: rounded to the nearest integer,
\* halves to the even one, and clamped to 0..255
ToUint8Clamped(x1000) ==
    LET q == x1000 \div 1000
        rest == x1000 % 1000
        n == IF rest > 500 \/ (rest = 500 /\ q % 2 = 1) THEN q + 1 ELSE q
    IN IF n > 255 THEN 255 ELSE IF n < 0 THEN 0 ELSE n

\* pass 1: data[i] = data[i + 1] = data[i + 2] = luma, alpha left alone
Grayscale(data) ==
    [j \in 1..Len(data) |->
        LET v == ToUint8Clamped(Luma1000(data[j]))
        IN Pixel(v, v, v, data[j].a)]

\* totalLuma, in thousandths: the sum of the lumas as computed, not as stored
TotalLuma1000(data) ==
    LET sum[j \in 0..Len(data)] == IF j = 0 THEN 0 ELSE sum[j - 1] + Luma1000(data[j])
    IN sum[Len(data)]

\* luma < threshold, with threshold = (totalLuma / pixels) * 0.9
BelowThreshold(luma1000, total1000, pixels) == luma1000 * 10 * pixels < 9 * total1000

\* pass 2: const luma = data[i]; val = luma < threshold ? 0 : 255
Binarize(gray, total1000) ==
    [j \in 1..Len(gray) |->
        LET val == IF BelowThreshold(gray[j].r * 1000, total1000, Len(gray)) THEN 0 ELSE 255
        IN Pixel(val, val, val, gray[j].a)]

\* the pixels context.putImageData writes back
applyImagePreprocessing(data) == Binarize(Grayscale(data), TotalLuma1000(data))

\* the colours and alpha values of the rendered pixels
Colours ==
    {<<0, 0, 0>>, <<1, 0, 0>>, <<0, 0, 4>>, <<0, 0, 5>>, <<1, 1, 1>>,
     <<128, 128, 128>>, <<255, 255, 255>>, <<200, 30, 30>>}

Alphas == {255, 128}

Pixels == {Pixel(c[1], c[2], c[3], a) : c \in Colours, a \in Alphas}

GreyPage == <<Pixel(128, 128, 128, 255)>>

\* what page.render leaves on the canvas
Rasters(m) ==
    IF m = "image" THEN UNION {[1..n -> Pixels] : n \in 1..MaxPixels} ELSE {GreyPage}

\* mutant: the failure leaves the try block of the page
PreprocessingFailedThrows(o, raster) ==
    Throw([o EXCEPT !.raster = raster, !.enhanced = "failed"], PlainPageError)

\* catch (e) { console.warn(...) }: the canvas keeps what page.render drew
PreprocessingFailed(o, raster) ==
    [o EXCEPT !.pc = "toBlob", !.raster = raster, !.canvas = raster, !.enhanced = "failed"]

\* renderPageToCanvas returns the canvas
Rendered(o, raster) ==
    IF o.enhance
    THEN [o EXCEPT !.pc = "toBlob", !.raster = raster,
                   !.canvas = applyImagePreprocessing(raster), !.enhanced = "done"]
    ELSE [o EXCEPT !.pc = "toBlob", !.raster = raster, !.canvas = raster, !.enhanced = "off"]

\* await page.render(...).promise, then the image preprocessing
OcrRender(d) ==
    /\ ocr[d].pc = "render"
    /\ \/ \E raster \in Rasters(mode) :
              ocr' = [ocr EXCEPT ![d] = Rendered(ocr[d], raster)]
       \/ \E raster \in Rasters(mode) :
              /\ ocr[d].enhance
              /\ mode \in {"image", "ocr"}
              /\ ocr' = [ocr EXCEPT ![d] = PreprocessingFailed(ocr[d], raster)]
       \/ \E msg \in {PlainPageError, MemoryPageError} :
              ocr' = [ocr EXCEPT ![d] = PageFailed(ocr[d], msg, signal[d])]
    /\ UseHandle(d)
    /\ UNCHANGED <<mode, handle, docPages, destroyed, ext, signal, appVars, fileUpload, gen, quiz>>

\* if (!blob) { failedPages++; continue; }
BlobFailed(o) == PageEnd([o EXCEPT !.failedPages = o.failedPages + 1], "blob", <<>>, <<>>)

\* the rest of the try block once worker.recognize has returned pageText
Recognized(o, pageText) ==
    LET hasText == pageText # <<>> /\ Trim(pageText) # <<>>
        t == IF hasText THEN o.fullText \o OcrPageMarker(o.p) \o pageText \o <<"LF", "LF">>
             ELSE o.fullText
        percent == RoundPercent(o.p, o.numPages)
    IN PageEnd([o EXCEPT !.fullText = t, !.progress = Append(o.progress, percent)],
               IF hasText THEN "text" ELSE "empty", <<>>, IF hasText THEN pageText ELSE <<>>)

\* await canvas.toBlob: a null blob counts the page as failed and continues
OcrToBlob(d) ==
    /\ ocr[d].pc = "toBlob"
    /\ \/ ocr' = [ocr EXCEPT ![d].pc = "recognize", ![d].raster = <<>>, ![d].canvas = <<>>]
       \/ ocr' = [ocr EXCEPT ![d] = PageDone(BlobFailed(ocr[d]), signal[d])]
    /\ UseHandle(d)
    /\ UNCHANGED <<mode, handle, docPages, destroyed, ext, signal, appVars, fileUpload, gen, quiz>>

\* await worker.recognize(blob)
OcrRecognize(d) ==
    /\ ocr[d].pc = "recognize"
    /\ \/ \E pageText \in RecognizedTexts :
              ocr' = [ocr EXCEPT ![d] = PageDone(Recognized(ocr[d], pageText), signal[d])]
       \/ \E msg \in {PlainPageError, WasmPageError} :
              ocr' = [ocr EXCEPT ![d] = PageFailed(ocr[d], msg, signal[d])]
    /\ UseHandle(d)
    /\ UNCHANGED <<mode, handle, docPages, destroyed, ext, signal, appVars, fileUpload, gen, quiz>>

\* await new Promise(resolve => setTimeout(resolve, 0)), then i += batchSize
OcrYield(d) ==
    /\ ocr[d].pc = "yield"
    /\ ocr' = [ocr EXCEPT ![d] =
                  BatchLoop([ocr[d] EXCEPT !.i = ocr[d].i + ocr[d].batchSize,
                                           !.yields = IF ocr[d].batchSize > 0 THEN @ + 1 ELSE @,
                                           !.sinceYield = 0],
                            signal[d])]
    /\ UseHandle(d)
    /\ UNCHANGED <<mode, handle, docPages, destroyed, ext, signal, appVars, fileUpload, gen, quiz>>

\* what is left of a call once it has settled: its result, its worker and what its
\* progress callback was given
Settled(o, pc) ==
    [OcrIdle EXCEPT !.pc = pc, !.caller = o.caller, !.result = o.result, !.worker = o.worker,
                    !.created = o.created, !.lastCheck = o.lastCheck, !.afterAbort = o.afterAbort,
                    !.progress = IF pc = "returned" THEN o.progress ELSE <<>>]

\* the finally block, after which the call settles
OcrTerminate(d) ==
    /\ ocr[d].pc = "terminate"
    /\ ocr' = [ocr EXCEPT ![d] =
                  Settled([ocr[d] EXCEPT !.worker = FinallyWorker(ocr[d].worker)], "returned")]
    /\ UseHandle(d)
    /\ UNCHANGED <<mode, handle, docPages, destroyed, ext, signal, appVars, fileUpload, gen, quiz>>

runOCRFromPDF(d) ==
    \/ OcrCreateWorker(d)
    \/ OcrGetPage(d)
    \/ OcrRender(d)
    \/ OcrToBlob(d)
    \/ OcrRecognize(d)
    \/ OcrYield(d)
    \/ OcrTerminate(d)

\* --------------------------------------------- extractTextFromPDF (pdfUtils.ts)
\* mutant: the catch block does not know the name FormatError
MapExtractErrorNoFormatError(e) ==
    IF e.code = "PDF_SCANNED" THEN e
    ELSE IF e.name = "PasswordException" \/ Includes(e.msg, "password") THEN Err(PasswordMsg)
    ELSE IF e.name = "InvalidPDFException" THEN Err(InvalidFormatMsg)
    ELSE IF \/ Includes(e.msg, "Failed to fetch")
            \/ Includes(e.msg, "dynamically imported module")
            \/ Includes(e.msg, "NetworkError")
         THEN Err(LibraryLoadMsg)
    ELSE IF e.msg # <<>> THEN e ELSE Err(GenericReadMsg)

\* catch (error) of extractTextFromPDF: the error the call rejects with
MapExtractError(e) ==
    IF e.code = "PDF_SCANNED" THEN e
    ELSE IF e.name = "PasswordException" \/ Includes(e.msg, "password") THEN Err(PasswordMsg)
    ELSE IF e.name = "InvalidPDFException" \/ e.name = "FormatError" THEN Err(InvalidFormatMsg)
    ELSE IF \/ Includes(e.msg, "Failed to fetch")
            \/ Includes(e.msg, "dynamically imported module")
            \/ Includes(e.msg, "NetworkError")
         THEN Err(LibraryLoadMsg)
    ELSE IF e.msg # <<>> THEN e ELSE Err(GenericReadMsg)

Rejected(x, e) ==
    [x EXCEPT !.pc = "done",
              !.cause = e,
              !.outcome = [kind |-> "Error", error |-> MapExtractError(e), text |-> <<>>,
                           pdfDoc |-> 0, via |-> ""]]

\* mutant: the runs are counted without trimming
meaningfulItemsNoTrim(items) == SelectSeq(items, LAMBDA it : Len(it.str) > 0)

\* textContent.items.filter(item => (item.str || '').trim().length > 0)
meaningfulItems(items) == SelectSeq(items, LAMBDA it : Len(Trim(it.str)) > 0)

\* items.map(item => item.hasEOL ? `${str}\n` : `${str} `).join('')
pageText(items) ==
    Flatten([j \in 1..Len(items) |->
                items[j].str \o (IF items[j].hasEOL THEN <<"LF">> ELSE <<"SP">>)])

\* mutant: the run floor is compared with <=
ClassifyItemsOffByOne(chars, items) ==
    IF chars < MIN_CHARS_TOTAL
    THEN IF items <= MIN_ITEMS_TOTAL THEN "scanned" ELSE "encoding"
    ELSE "text"

\* mutant: either floor is enough for a Text result
ClassifyEitherFloor(chars, items) ==
    IF chars >= MIN_CHARS_TOTAL \/ items >= MIN_ITEMS_TOTAL THEN "text" ELSE "scanned"

\* mutant: every document below the character floor is taken for a scan
ClassifyEncodingAsScanned(chars, items) ==
    IF chars < MIN_CHARS_TOTAL THEN "scanned" ELSE "text"

\* the decision of lines 120-147 on the trimmed length and the run count
Classify(chars, items) ==
    IF chars < MIN_CHARS_TOTAL
    THEN IF items < MIN_ITEMS_TOTAL THEN "scanned" ELSE "encoding"
    ELSE "text"

\* mutant: the buffer is handed to getDocument without the length test
AfterReadNoCheck(x, byteLength) == [x EXCEPT !.pc = "open", !.byteLength = byteLength]

\* if (!arrayBuffer || arrayBuffer.byteLength === 0) throw ...; else getDocument(...)
AfterRead(x, byteLength) ==
    IF byteLength = 0 THEN Rejected([x EXCEPT !.byteLength = byteLength], Err(EmptyFileMsg))
    ELSE [x EXCEPT !.pc = "open", !.byteLength = byteLength]

\* the call reads a file that an earlier call has read: the bytes, and with them
\* the page count and the text runs of every page, are those of the earlier call
Replay(x) == x.run = 2

\* the pages of the file as the first of two calls finds them: the text runs of the
\* page, or a page that pdf.getPage rejects
Recorded(m, x, items, broken) ==
    IF m = "twice" /\ x.run = 1
    THEN [x EXCEPT !.content = Append(@, [items |-> items, broken |-> broken])]
    ELSE x

\* the text runs page x.i can yield
PageContent(m, x) ==
    IF Replay(x) THEN {x.content[x.i].items} ELSE PageInputs(m)

\* await file.arrayBuffer()
ExtReadFile ==
    /\ ext.pc = "readFile"
    /\ \E byteLength \in (IF Replay(ext) THEN {1} ELSE {0, 1}) :
          ext' = AfterRead(ext, byteLength)
    /\ UNCHANGED <<mode, handle, docPages, destroyed, staleUse, ocr, signal, appVars, fileUpload, gen, quiz>>

\* loadingTask.onProgress: the bytes loaded so far grow up to the total; a total of 0
\* (length unknown) is not reported
ExtLoadProgress ==
    /\ ext.pc = "open"
    /\ \E total \in {0, LoadTotal} : \E loaded \in (ext.loaded + 1)..LoadTotal :
          ext' = [ext EXCEPT !.loaded = loaded,
                             !.progress = IF total > 0
                                          THEN Append(@, (40 * loaded + total) \div (2 * total))
                                          ELSE @]
    /\ UNCHANGED <<mode, handle, docPages, destroyed, staleUse, ocr, signal, appVars, fileUpload, gen, quiz>>

\* await loadingTask.promise
ExtOpen ==
    /\ ext.pc = "open"
    /\ \/ /\ ~Replay(ext)
          /\ \E e \in OpenErrors : ext' = Rejected(ext, e)
          /\ UNCHANGED <<handle, docPages>>
       \/ \E n \in (IF Replay(ext) THEN {docPages[ext.doc]} ELSE PageCounts(mode)) :
             /\ handle' = [handle EXCEPT ![ext.doc] = "open"]
             /\ docPages' = [docPages EXCEPT ![ext.doc] = n]
             /\ ext' = IF n = 0 THEN Rejected(ext, Err(EmptyDocumentMsg))
                       ELSE [ext EXCEPT !.pc = "page", !.numPages = n, !.i = 1]
    /\ UNCHANGED <<mode, destroyed, staleUse, ocr, signal, appVars, fileUpload, gen, quiz>>

\* every text run of the page is blank: white space only (history of the input)
BlankRuns(items) == \A j \in 1..Len(items) : \A k \in 1..Len(items[j].str) : IsWhitespace(items[j].str[k])

\* mutant: the marker is written for every page, with or without text
ExtPageBodyAlwaysMarker(x, items) ==
    LET cleanedPageText == cleanText(pageText(items))
        percentage == 20 + (x.i * 80) \div x.numPages
    IN [x EXCEPT !.totalItems = x.totalItems + Len(meaningfulItems(items)),
                 !.blankDoc = x.blankDoc /\ BlankRuns(items),
                 !.fullText = x.fullText \o PageMarker(x.i) \o cleanedPageText \o <<"LF", "LF">>,
                 !.withText = IF Len(cleanedPageText) > 0 THEN @ \cup {x.i} ELSE @,
                 !.progress = Append(@, percentage)]

\* the body of the page loop on the text runs the page yields
ExtPageBody(x, items) ==
    LET cleanedPageText == cleanText(pageText(items))
        percentage == 20 + (x.i * 80) \div x.numPages
    IN [x EXCEPT !.totalItems = x.totalItems + Len(meaningfulItems(items)),
                 !.blankDoc = x.blankDoc /\ BlankRuns(items),
                 !.fullText = IF Len(cleanedPageText) > 0
                              THEN x.fullText \o PageMarker(x.i) \o cleanedPageText \o <<"LF", "LF">>
                              ELSE x.fullText,
                 !.withText = IF Len(cleanedPageText) > 0 THEN @ \cup {x.i} ELSE @,
                 !.progress = Append(@, percentage)]

ExtNextPage(x) ==
    [x EXCEPT !.i = x.i + 1, !.pc = IF x.i + 1 > x.numPages THEN "classify" ELSE "page"]

\* mutant: the rejection of the text fetch escapes the page loop
ExtPageTimeoutFatal(x) == Rejected([x EXCEPT !.timedOut = @ \cup {x.i}], Err(<<"Timeout">>))

\* the text fetch of page x.i timed out or failed: .catch(e => ({ items: [] }))
ExtPageTimeout(x) == ExtNextPage(ExtPageBody([x EXCEPT !.timedOut = @ \cup {x.i}], <<>>))

\* one iteration of for (let i = 1; i <= pdf.numPages; i++)
ExtPage ==
    /\ ext.pc = "page"
    /\ \E items \in PageContent(mode, ext) :
          \/ /\ Replay(ext) => ~ext.content[ext.i].broken
             /\ ext' = ExtNextPage(ExtPageBody(Recorded(mode, ext, items, FALSE), items))
          \/ /\ Replay(ext) => ~ext.content[ext.i].broken
             /\ ext' = ExtPageTimeout(Recorded(mode, ext, items, FALSE))
          \/ /\ Replay(ext) => ext.content[ext.i].broken   \* getPage failed: catch (pageError)
             /\ ext' = ExtNextPage(Recorded(mode, ext, items, TRUE))
    /\ UNCHANGED <<mode, handle, docPages, destroyed, staleUse, ocr, signal, appVars, fileUpload, gen, quiz>>

\* lines 114-147
ExtClassify ==
    /\ ext.pc = "classify"
    /\ LET trimmedText == Trim(ext.fullText)
           b == Classify(Len(trimmedText), ext.totalItems)
           x == [ext EXCEPT !.branch = b]
       IN CASE b = "text" ->
                 /\ ext' = [x EXCEPT !.pc = "done",
                                     !.outcome = [kind |-> "Text", error |-> NoError,
                                                  text |-> ext.fullText, pdfDoc |-> ext.doc,
                                                  via |-> "text"]]
                 /\ UNCHANGED ocr
            [] b = "scanned" /\ ext.enableOCR ->
                 /\ ext' = [x EXCEPT !.pc = "ocr", !.fullText = <<>>, !.totalItems = 0]
                 /\ ocr' = [ocr EXCEPT ![ext.doc] =
                               OcrCall("extract", DefaultMaxPages, DefaultBatchSize)]
            [] b = "scanned" /\ ~ext.enableOCR ->
                 /\ ext' = Rejected(x, [name |-> "Error", code |-> "PDF_SCANNED",
                                        msg |-> ScannedMsg, pdfDoc |-> ext.doc])
                 /\ UNCHANGED ocr
            [] OTHER ->
                 /\ ext' = Rejected(x, Err(EncodingMsg))
                 /\ UNCHANGED ocr
    /\ UNCHANGED <<mode, handle, docPages, destroyed, staleUse, signal, appVars, fileUpload, gen, quiz>>

\* mutant: a failed OCR run falls back to the scanned signal
AfterOcrScannedOnFailure(x, r) ==
    IF r.kind = "text"
    THEN [x EXCEPT !.pc = "done",
                   !.outcome = [kind |-> "Text", error |-> NoError, text |-> r.text,
                                pdfDoc |-> x.doc, via |-> "ocr"]]
    ELSE Rejected(x, [name |-> "Error", code |-> "PDF_SCANNED", msg |-> ScannedMsg,
                      pdfDoc |-> x.doc])

\* return { text: ocrText, pdfDoc: pdf } or throw new Error(`OCR that bai: ...`)
AfterOcr(x, r) ==
    IF r.kind = "text"
    THEN [x EXCEPT !.pc = "done",
                   !.outcome = [kind |-> "Text", error |-> NoError, text |-> r.text,
                                pdfDoc |-> x.doc, via |-> "ocr"]]
    ELSE Rejected(x, Err(OcrFailedPrefix \o r.msg))

\* the await of runOCRFromPDF(pdf, ...) settles
ExtOcrSettled ==
    /\ ext.pc = "ocr"
    /\ ocr[ext.doc].pc = "returned"
    /\ ocr[ext.doc].caller = "extract"
    /\ ext' = AfterOcr(ext, ocr[ext.doc].result)
    /\ UNCHANGED <<mode, handle, docPages, destroyed, staleUse, ocr, signal, appVars, fileUpload, gen, quiz>>

extractTextFromPDF ==
    \/ ExtReadFile
    \/ ExtLoadProgress
    \/ ExtOpen
    \/ ExtPage
    \/ ExtClassify
    \/ ExtOcrSettled

\* ------------------------------------------- FileUpload.tsx, cloud upload
PdfOnlyMsg == <<"Chi ho tro file PDF.">>
TooLargeMsg == <<"File qua lon (>50MB).">>
UploadAbortedMsg == <<"Da huy qua trinh tai len.">>
UploadConfigMsg == <<"Loi cau hinh: Khong tim thay API Key.">>
UploadNetworkMsg == <<"Loi ket noi mang.">>
UploadInit403Msg == <<"Khong co quyen truy cap (403).">>
UploadInit400Msg == <<"Yeu cau khong hop le.">>
UploadInitMsg == <<"Khong the khoi tao phien tai len voi Google.">>
Upload404Msg == <<"Loi may chu (404): Khong tim thay duong dan tai len.">>
Upload413Msg == <<"File qua lon so voi gioi han cua Google API.">>
UploadFailedMsg == <<"Qua trinh gui du lieu bi gian doan.">>
UploadProtocolMsg == <<"Phan hoi tu may chu khong hop le.">>
UploadUnknownMsg == <<"Da xay ra loi khong xac dinh khi tai len dam may.">>

NoFile == [name |-> "", type |-> "", size |-> 0]

\* e.target.files?.[0]
CloudFiles ==
    {NoFile} \cup
    [name : {"test.pdf", "test.png"},
     type : {"application/pdf", "image/png", ""},
     size : {0, MaxCloudBytes, MaxCloudBytes + 1}]

\* result.fileUri of a resolved upload
FileUris == {"files/123", "[Unverified-URI]/test.pdf"}

UploadErr(code, msg) == [code |-> code, msg |-> msg]

NoUploadErr == UploadErr("none", <<>>)

\* what uploadToGeminiFiles rejects with
UploadErrors ==
    {UploadErr("UPLOAD_ABORTED", <<"Upload aborted">>),
     UploadErr("CONFIG_ERROR", <<"Missing API Key configuration.">>),
     UploadErr("NETWORK_ERROR", <<"Network error during XHR">>),
     UploadErr("NETWORK_ERROR", <<"Network error">>),
     UploadErr("INIT_FAILED", <<"Init failed: ", "403">>),
     UploadErr("INIT_FAILED", <<"Init failed: ", "400">>),
     UploadErr("INIT_FAILED", <<"Init failed">>),
     UploadErr("UPLOAD_FAILED", <<"Upload failed with status ", "404">>),
     UploadErr("UPLOAD_FAILED", <<"Upload failed with status ", "413">>),
     UploadErr("UPLOAD_FAILED", <<"Upload failed with status ", "500">>),
     UploadErr("PROTOCOL_ERROR", <<"Bad response">>),
     UploadErr("NOT_SUPPORTED", <<"Direct browser upload is not supported by Google Files API.">>),
     UploadErr("", <<>>)}

\* the component as mounted, with or without the onUploaded prop; file, selects,
\* calls, uploaded and settled record what the handler was given and what it called
Mount(onUploaded) ==
    [onUploaded |-> onUploaded, error |-> <<>>, isUploading |-> FALSE, uploadProgress |-> 0,
     uploadSuccessUri |-> "", controller |-> "none",
     file |-> NoFile, selects |-> 0, calls |-> 0, uploaded |-> <<>>, settled |-> "",
     cause |-> NoUploadErr]

\* const isBusy = isLoading || isDriveProcessing || isUploading, with isLoading and
\* isDriveProcessing false
isBusy(f) == f.isUploading

\* {error && (...)}
ShowsError(f) == f.error # <<>>

\* {uploadSuccessUri && (...)}: "Upload thanh cong! URI: ..."
ShowsSuccess(f) == f.uploadSuccessUri # ""

\* mutant: the size of the file is not tested
CloudValidationNoSize(file) ==
    IF file.type # "application/pdf" THEN PdfOnlyMsg ELSE <<>>

\* the validation of the selected file: the error to show, <<>> for a valid file
CloudValidation(file) ==
    IF file.type # "application/pdf" THEN PdfOnlyMsg
    ELSE IF file.size > MaxCloudBytes THEN TooLargeMsg
    ELSE <<>>

\* the state is reset, the controller is set up and uploadToGeminiFiles is called
StartUpload(f) ==
    [f EXCEPT !.error = <<>>, !.uploadSuccessUri = "", !.isUploading = TRUE,
              !.uploadProgress = 0, !.controller = "live", !.calls = f.calls + 1]

\* handleCloudUploadSelect up to its await
CloudSelected(f, file) ==
    IF file = NoFile THEN f
    ELSE LET g == [f EXCEPT !.file = file, !.selects = f.selects + 1, !.calls = 0,
                            !.settled = "", !.cause = NoUploadErr]
         IN IF CloudValidation(file) # <<>>
            THEN [g EXCEPT !.error = CloudValidation(file)]
            ELSE StartUpload(g)

\* the switch on err.code of the catch block
FriendlyMessage(err) ==
    CASE err.code = "UPLOAD_ABORTED" -> UploadAbortedMsg
      [] err.code = "CONFIG_ERROR" -> UploadConfigMsg
      [] err.code = "NETWORK_ERROR" -> UploadNetworkMsg
      [] err.code = "INIT_FAILED" ->
             IF Includes(err.msg, "403") THEN UploadInit403Msg
             ELSE IF Includes(err.msg, "400") THEN UploadInit400Msg
             ELSE UploadInitMsg
      [] err.code = "UPLOAD_FAILED" ->
             IF Includes(err.msg, "404") THEN Upload404Msg
             ELSE IF Includes(err.msg, "413") THEN Upload413Msg
             ELSE UploadFailedMsg
      [] err.code = "PROTOCOL_ERROR" -> UploadProtocolMsg
      [] OTHER -> IF err.msg # <<>> THEN err.msg ELSE UploadUnknownMsg

\* mutant: the parent is not told
ResolvedNoCallback(f, uri) ==
    [f EXCEPT !.uploadSuccessUri = uri, !.settled = "resolved"]

\* setUploadSuccessUri(result.fileUri); if (onUploaded) onUploaded(result.fileUri, file.name)
Resolved(f, uri) ==
    [f EXCEPT !.uploadSuccessUri = uri, !.settled = "resolved",
              !.uploaded = IF f.onUploaded THEN Append(@, <<uri, f.file.name>>) ELSE @]

\* catch (err) { ... setError(friendlyMessage) }
Caught(f, err) ==
    [f EXCEPT !.error = FriendlyMessage(err), !.settled = "rejected", !.cause = err]

\* finally { setIsUploading(false); abortControllerRef.current = null; ... }
UploadFinally(f) == [f EXCEPT !.isUploading = FALSE, !.controller = "none"]

\* onChange of the "Upload to Gemini" input, which is disabled while isBusy
handleCloudUploadSelect ==
    /\ mode = "upload"
    /\ ~isBusy(fileUpload)
    /\ fileUpload.selects < MaxSelects
    /\ \E file \in CloudFiles : fileUpload' = CloudSelected(fileUpload, file)
    /\ UNCHANGED <<mode, handle, docPages, destroyed, staleUse, ext, ocr, signal, appVars, gen, quiz>>

\* (percent) => setUploadProgress(percent)
UploadProgress ==
    /\ mode = "upload"
    /\ fileUpload.isUploading
    /\ \E percent \in {50, 100} :
          /\ percent > fileUpload.uploadProgress
          /\ fileUpload' = [fileUpload EXCEPT !.uploadProgress = percent]
    /\ UNCHANGED <<mode, handle, docPages, destroyed, staleUse, ext, ocr, signal, appVars, gen, quiz>>

\* the await of uploadToGeminiFiles resolves
UploadResolved ==
    /\ mode = "upload"
    /\ fileUpload.isUploading
    /\ \E uri \in FileUris : fileUpload' = UploadFinally(Resolved(fileUpload, uri))
    /\ UNCHANGED <<mode, handle, docPages, destroyed, staleUse, ext, ocr, signal, appVars, gen, quiz>>

\* the await of uploadToGeminiFiles rejects; UPLOAD_ABORTED only after an abort
UploadRejected ==
    /\ mode = "upload"
    /\ fileUpload.isUploading
    /\ \E err \in UploadErrors :
          /\ err.code = "UPLOAD_ABORTED" => fileUpload.controller = "aborted"
          /\ fileUpload' = UploadFinally(Caught(fileUpload, err))
    /\ UNCHANGED <<mode, handle, docPages, destroyed, staleUse, ext, ocr, signal, appVars, gen, quiz>>

\* the cancel button, rendered while isUploading
cancelUpload ==
    /\ mode = "upload"
    /\ fileUpload.isUploading
    /\ fileUpload.controller = "live"
    /\ fileUpload' = [fileUpload EXCEPT !.controller = "aborted"]
    /\ UNCHANGED <<mode, handle, docPages, destroyed, staleUse, ext, ocr, signal, appVars, gen, quiz>>

FileUploadNext ==
    \/ handleCloudUploadSelect
    \/ UploadProgress
    \/ UploadResolved
    \/ UploadRejected
    \/ cancelUpload

\* ------------------------------- generateQuizFromText (geminiService.ts)
NoValidQuestionsMsg == <<"AI could not generate valid questions.">>
CannotGenerateMsg == <<"Khong the tao so luong cau hoi lon. Vui long thu lai voi so luong it hon.">>

GenErr(name, msg) == [name |-> name, msg |-> msg]

NoGenErr == GenErr("", <<>>)

\* what attemptGeneration rejects with: JSON.parse failures, the empty response, and
\* rejections of ai.models.generateContent
GenErrors ==
    {GenErr("SyntaxError", <<"Unexpected token } in JSON at position 1">>),
     GenErr("SyntaxError", <<"Expected property name or '}'">>),
     GenErr("Error", <<"No response generated from AI">>),
     GenErr("ApiError", <<"Invalid JSON payload received.">>),
     GenErr("ApiError", <<"Resource has been exhausted">>)}

\* what attemptGeneration settles with: the parsed data, by its number of chapters
\* (0 for no chapters or no chapters field), or an error
AttemptOutcomes ==
    {[kind |-> "data", chapters |-> k, err |-> NoGenErr] : k \in 0..MaxChapters}
    \cup {[kind |-> "error", chapters |-> 0, err |-> e] : e \in GenErrors}

\* the question counts the range input of DifficultySelector can give
QuestionCounts ==
    {n \in MinQuestionCount..MaxQuestionCount : n % QuestionCountStep = 0}

NoData == [chapters |-> 0, named |-> ""]

GenIdle ==
    [pc |-> "idle", numQuestions |-> 0, source |-> "", previous |-> 0,
     attempts |-> <<>>, failures |-> <<>>, data |-> NoData, error |-> NoGenErr]

\* one call of attemptGeneration(targetCount, instructionOverride)
Attempt(count, override) == [count |-> count, override |-> override]

\* the call up to the await of the first attemptGeneration(finalQuestionCount);
\* targetQuestionCount 0 stands for a count that was not passed
GenCall(targetQuestionCount, source, previous) ==
    LET numQuestions == IF targetQuestionCount # 0 THEN targetQuestionCount
                        ELSE DefaultQuestionCount
    IN [GenIdle EXCEPT !.pc = "first", !.numQuestions = numQuestions, !.source = source,
                       !.previous = previous,
                       !.attempts = <<Attempt(numQuestions, "none")>>]

\* Math.max(20, Math.floor(numQuestions * 0.8))
fallbackCount(numQuestions) ==
    LET scaled == (numQuestions * 4) \div 5
    IN IF scaled > FallbackFloor THEN scaled ELSE FallbackFloor

\* error instanceof SyntaxError || error.message.includes('JSON')
TakenForParseFailure(e) == e.name = "SyntaxError" \/ Includes(e.msg, "JSON")

GenReturn(g, chapters, named) ==
    [g EXCEPT !.pc = "returned", !.data = [chapters |-> chapters, named |-> named]]

GenThrow(g, e) == [g EXCEPT !.pc = "thrown", !.error = e]

\* the naming of the first attempt's data
FileNameOf(g) ==
    IF g.source = "web" THEN "web"
    ELSE IF g.previous > 0 THEN "numbered"
    ELSE "model"

\* the catch block of the first attempt
FirstFailed(g, e) ==
    LET h == [g EXCEPT !.failures = Append(@, e)]
    IN IF TakenForParseFailure(e)
       THEN [h EXCEPT !.pc = "retry", !.attempts = Append(@, Attempt(g.numQuestions, "retry"))]
       ELSE GenThrow(h, e)

\* the try block of the first attempt and its catch
FirstSettled(g, out) ==
    IF out.kind = "data"
    THEN IF out.chapters = 0
         THEN FirstFailed(g, GenErr("Error", NoValidQuestionsMsg))
         ELSE GenReturn(g, out.chapters, FileNameOf(g))
    ELSE FirstFailed(g, out.err)

\* return await attemptGeneration(finalQuestionCount, retryPrompt), and its catch
RetrySettled(g, out) ==
    IF out.kind = "data" THEN GenReturn(g, out.chapters, "model")
    ELSE [g EXCEPT !.pc = "fallback",
                   !.failures = Append(@, out.err),
                   !.attempts = Append(@, Attempt(fallbackCount(g.numQuestions), "fallback"))]

\* return await attemptGeneration(fallbackCount, ...), and its catch
FallbackSettled(g, out) ==
    IF out.kind = "data" THEN GenReturn(g, out.chapters, "model")
    ELSE GenThrow([g EXCEPT !.failures = Append(@, out.err)], GenErr("Error", CannotGenerateMsg))

GenFirstSettled ==
    /\ gen.pc = "first"
    /\ \E out \in AttemptOutcomes : gen' = FirstSettled(gen, out)
    /\ UNCHANGED <<mode, handle, docPages, destroyed, staleUse, ext, ocr, signal, appVars,
                   fileUpload, quiz>>

GenRetrySettled ==
    /\ gen.pc = "retry"
    /\ \E out \in AttemptOutcomes : gen' = RetrySettled(gen, out)
    /\ UNCHANGED <<mode, handle, docPages, destroyed, staleUse, ext, ocr, signal, appVars,
                   fileUpload, quiz>>

GenFallbackSettled ==
    /\ gen.pc = "fallback"
    /\ \E out \in AttemptOutcomes : gen' = FallbackSettled(gen, out)
    /\ UNCHANGED <<mode, handle, docPages, destroyed, staleUse, ext, ocr, signal, appVars,
                   fileUpload, quiz>>

generateQuizFromText ==
    \/ GenFirstSettled
    \/ GenRetrySettled
    \/ GenFallbackSettled

\* ------------------------------------------------- components/QuizPlayer
\* the questions of the quiz data, the data changes and restarts of one mount
MaxQuestions == 2
MaxResets == 1

SecondsPerMinute == 60

\* the examDuration prop in minutes, 0 for undefined
ExamDurations == {0, 1}

StudyModes == {"review", "exam", "flashcard"}

\* the keys of the options of a question, and its correct_answer
OptionKeys == {"A", "B", "C"}
CorrectAnswer == "A"

QuestionIndices == 0..(MaxQuestions - 1)

\* userAnswers and hiddenOptions as {}
NoAnswers == [i \in QuestionIndices |-> ""]
NoHidden == [i \in QuestionIndices |-> {}]

\* no QuizPlayer is mounted
QuizIdle ==
    [mode |-> "none", examDuration |-> 0, n |-> 0, currentIndex |-> 0,
     userAnswers |-> NoAnswers, isFlipped |-> FALSE, timeLeft |-> 0,
     isExamSubmitted |-> FALSE, hiddenOptions |-> NoHidden, showSummary |-> FALSE,
     resets |-> 0, refused |-> FALSE]

\* the useState initial values and the first run of the data effect; n is
\* allQuestions.length
QuizMount(m, n, d) ==
    [QuizIdle EXCEPT !.mode = m, !.examDuration = d, !.n = n,
                     !.timeLeft = d * SecondsPerMinute]

isReviewMode(q) == q.mode = "review"
isExamMode(q) == q.mode = "exam"
isFlashcardMode(q) == q.mode = "flashcard"

\* !!userAnswers[currentIndex]
isAnswered(q) == q.userAnswers[q.currentIndex] # ""

isLocked(q) == IF isReviewMode(q) THEN isAnswered(q) ELSE q.isExamSubmitted

\* currentQuestion is defined and the summary is not shown: the question is rendered
QuestionShown(q) == q.mode # "none" /\ q.currentIndex < q.n /\ ~q.showSummary

\* the summary screen is rendered
SummaryShown(q) == q.mode # "none" /\ q.currentIndex < q.n /\ q.showSummary

\* mutant: only the review mode refuses an answer
AnswerRefusedInReviewOnly(q) == isReviewMode(q) /\ isAnswered(q)

\* the two early returns of handleAnswerSelect
AnswerRefused(q) ==
    \/ isReviewMode(q) /\ isAnswered(q)
    \/ isExamMode(q) /\ q.isExamSubmitted

\* a handler other than a refused handleAnswerSelect ran
Acted(q) == [q EXCEPT !.refused = FALSE]

AnswerSelected(q, key) ==
    IF AnswerRefused(q) THEN [q EXCEPT !.refused = TRUE]
    ELSE Acted([q EXCEPT !.userAnswers[q.currentIndex] = key])

nextQuestion(q) ==
    IF q.currentIndex < q.n - 1
    THEN [q EXCEPT !.currentIndex = @ + 1, !.isFlipped = FALSE]
    ELSE IF ~isExamMode(q) \/ q.isExamSubmitted THEN [q EXCEPT !.showSummary = TRUE]
    ELSE q

prevQuestion(q) ==
    IF q.currentIndex > 0 THEN [q EXCEPT !.currentIndex = @ - 1, !.isFlipped = FALSE]
    ELSE q

submitExam(q) == [q EXCEPT !.isExamSubmitted = TRUE, !.showSummary = TRUE]

\* the handler of the keydown listener, after its early return
handleKeyDown(q, key) ==
    IF key = "ArrowRight"
    THEN IF q.currentIndex < q.n - 1 THEN nextQuestion(q) ELSE q
    ELSE IF key = "ArrowLeft"
    THEN IF q.currentIndex > 0 THEN prevQuestion(q) ELSE q
    ELSE IF isFlashcardMode(q) THEN [q EXCEPT !.isFlipped = ~@]
    ELSE q

QuizUnchanged ==
    UNCHANGED <<mode, handle, docPages, destroyed, staleUse, ext, ocr, signal, appVars,
                fileUpload, gen>>

\* a click on an option that is rendered and not disabled
handleAnswerSelect ==
    /\ mode = "quiz"
    /\ QuestionShown(quiz) /\ ~isFlashcardMode(quiz)
    /\ ~(isLocked(quiz) /\ isReviewMode(quiz))
    /\ \E key \in OptionKeys \ quiz.hiddenOptions[quiz.currentIndex] :
          quiz' = AnswerSelected(quiz, key)
    /\ QuizUnchanged

\* a click on the next button: disabled on the last flashcard, and in review mode
\* while the question is not answered
NextClicked ==
    /\ mode = "quiz"
    /\ QuestionShown(quiz)
    /\ IF isFlashcardMode(quiz) THEN quiz.currentIndex # quiz.n - 1
       ELSE ~(isReviewMode(quiz) /\ ~isAnswered(quiz))
    /\ quiz' = Acted(nextQuestion(quiz))
    /\ QuizUnchanged

\* a click on the back button, disabled on the first question
PrevClicked ==
    /\ mode = "quiz"
    /\ QuestionShown(quiz)
    /\ quiz.currentIndex # 0
    /\ quiz' = Acted(prevQuestion(quiz))
    /\ QuizUnchanged

\* a key goes down on the window
KeyDown(key) ==
    /\ mode = "quiz"
    /\ quiz.mode # "none"
    /\ ~quiz.showSummary
    /\ quiz' = Acted(handleKeyDown(quiz, key))
    /\ QuizUnchanged

\* a click on the card or on its flip button
FlipClicked ==
    /\ mode = "quiz"
    /\ QuestionShown(quiz) /\ isFlashcardMode(quiz)
    /\ quiz' = Acted([quiz EXCEPT !.isFlipped = ~@])
    /\ QuizUnchanged

\* a click on the submit button of the exam
SubmitClicked ==
    /\ mode = "quiz"
    /\ QuestionShown(quiz)
    /\ isExamMode(quiz) /\ ~quiz.isExamSubmitted
    /\ quiz' = Acted(submitExam(quiz))
    /\ QuizUnchanged

\* one tick of the interval of the exam timer
TimerTick ==
    /\ mode = "quiz"
    /\ isExamMode(quiz) /\ ~quiz.isExamSubmitted
    /\ quiz' = Acted(IF quiz.timeLeft <= 1 THEN submitExam([quiz EXCEPT !.timeLeft = 0])
                     ELSE [quiz EXCEPT !.timeLeft = @ - 1])
    /\ QuizUnchanged

\* a click on the hint button: two of the wrong options, or all of them, are hidden
handleHint ==
    /\ mode = "quiz"
    /\ QuestionShown(quiz)
    /\ isReviewMode(quiz) /\ ~isLocked(quiz)
    /\ quiz.hiddenOptions[quiz.currentIndex] = {}
    /\ \E toHide \in SUBSET (OptionKeys \ {CorrectAnswer}) :
          /\ Cardinality(toHide) = Min(2, Cardinality(OptionKeys \ {CorrectAnswer}))
          /\ quiz' = Acted([quiz EXCEPT !.hiddenOptions[quiz.currentIndex] = toHide])
    /\ QuizUnchanged

restartQuiz ==
    /\ mode = "quiz"
    /\ SummaryShown(quiz)
    /\ quiz.resets < MaxResets
    /\ quiz' = Acted([quiz EXCEPT !.showSummary = FALSE, !.currentIndex = 0,
                                  !.userAnswers = NoAnswers, !.hiddenOptions = NoHidden,
                                  !.isExamSubmitted = FALSE, !.isFlipped = FALSE,
                                  !.timeLeft = IF quiz.examDuration # 0
                                               THEN quiz.examDuration * SecondsPerMinute
                                               ELSE @,
                                  !.resets = @ + 1])
    /\ QuizUnchanged

handleReviewResults ==
    /\ mode = "quiz"
    /\ SummaryShown(quiz)
    /\ quiz' = Acted([quiz EXCEPT !.showSummary = FALSE, !.currentIndex = 0,
                                  !.isExamSubmitted = TRUE])
    /\ QuizUnchanged

\* the data prop changes: the data effect runs again
DataChanged ==
    /\ mode = "quiz"
    /\ quiz.mode # "none"
    /\ quiz.resets < MaxResets
    /\ \E n \in 0..MaxQuestions :
          quiz' = Acted([quiz EXCEPT !.n = n, !.currentIndex = 0, !.userAnswers = NoAnswers,
                                     !.showSummary = FALSE, !.isExamSubmitted = FALSE,
                                     !.timeLeft = quiz.examDuration * SecondsPerMinute,
                                     !.resets = @ + 1])
    /\ QuizUnchanged

QuizPlayer ==
    \/ handleAnswerSelect
    \/ NextClicked
    \/ PrevClicked
    \/ \E key \in {"ArrowRight", "ArrowLeft", " "} : KeyDown(key)
    \/ FlipClicked
    \/ SubmitClicked
    \/ TimerTick
    \/ handleHint
    \/ restartQuiz
    \/ handleReviewResults
    \/ DataChanged

\* ------------------------------------------------------------ App.tsx
NoUpload == [active |-> FALSE, files |-> <<>>, idx |-> 0, validFiles |-> <<>>, failedFiles |-> 0]

\* the OCRRunner element is rendered: {showOCR && scannedPDF && (<OCRRunner .../>)}
Mounted(show, pdf, d) == show /\ pdf = d /\ d # 0

\* The re-render after a handler set showOCR and scannedPDF: the cleanup of the
\* scannedPDF effect destroys the previous document, and an OCRRunner that is no
\* longer rendered unmounts, which aborts its controller.
Rerender(newShow, newPDF, sig, running) ==
    LET old == scannedPDF
        replaced == old # 0 /\ newPDF # old
        unmounted == Mounted(showOCR, old, old) /\ ~Mounted(newShow, newPDF, old)
    IN /\ showOCR' = newShow
       /\ scannedPDF' = newPDF
       /\ handle' = IF replaced THEN [handle EXCEPT ![old] = "destroyed"] ELSE handle
       /\ destroyed' = IF replaced THEN [destroyed EXCEPT ![old] = destroyed[old] + 1]
                       ELSE destroyed
       /\ signal' = IF unmounted /\ sig[old] # "none" THEN [sig EXCEPT ![old] = "aborted"]
                    ELSE sig
       /\ isRunning' = IF Mounted(newShow, newPDF, newPDF) /\ ~unmounted THEN running ELSE FALSE

\* extractTextFromPDF(file, { onProgress }) up to its first await
ExtCall(d) == [ExtIdle EXCEPT !.pc = "readFile", !.doc = d, !.enableOCR = FALSE]

\* App.handleFileUpload up to the first await
handleFileUpload ==
    /\ mode = "App"
    /\ ~upload.active
    /\ ~Mounted(showOCR, scannedPDF, scannedPDF)
    /\ appState = "IDLE" \/ (appState = "FILE_REVIEW" /\ currentFileUri = 0)
    /\ \E n \in 1..(MaxDocs + 1 - nextDoc) :
          /\ upload' = [NoUpload EXCEPT !.active = TRUE,
                                        !.files = [j \in 1..n |-> nextDoc + j - 1], !.idx = 1]
          /\ nextDoc' = nextDoc + n
          /\ ext' = ExtCall(nextDoc)
    /\ appState' = "EXTRACTING"
    /\ errorMsg' = <<>>
    /\ currentFileUri' = 0
    /\ Rerender(FALSE, 0, signal, isRunning)
    /\ UNCHANGED <<mode, docPages, staleUse, ocr, scannedFileName, uploadedFileNames,
                   extractedText, notified,
                 fileUpload, gen, quiz>>

\* the code after the for loop of handleFileUpload
UploadFinish(u) ==
    IF u.validFiles = <<>>
    THEN /\ appState' = "ERROR"
         /\ errorMsg' = <<"Khong doc duoc noi dung van ban.">>
         /\ UNCHANGED <<extractedText, uploadedFileNames>>
    ELSE /\ extractedText' = extractedText \o [j \in 1..Len(u.validFiles) |->
                                                 [doc |-> u.validFiles[j], src |-> "text"]]
         /\ uploadedFileNames' = uploadedFileNames \o u.validFiles
         /\ appState' = "FILE_REVIEW"
         /\ UNCHANGED errorMsg

\* the loop of handleFileUpload goes on after file u.idx
UploadContinue(u) ==
    IF u.idx < Len(u.files)
    THEN /\ upload' = [u EXCEPT !.idx = u.idx + 1]
         /\ ext' = ExtCall(u.files[u.idx + 1])
         /\ UNCHANGED <<appState, errorMsg, extractedText, uploadedFileNames>>
    ELSE /\ upload' = NoUpload
         /\ ext' = ExtIdle
         /\ UploadFinish(u)

\* the await of extractTextFromPDF in handleFileUpload settles
UploadSettled ==
    /\ mode = "App"
    /\ upload.active
    /\ ext.pc = "done"
    /\ LET r == ext.outcome
           d == ext.doc
       IN \/ /\ r.kind = "Text"
             /\ UploadContinue(IF Len(Trim(r.text)) >= MIN_FILE_CHARS
                               THEN [upload EXCEPT !.validFiles = Append(@, d)]
                               ELSE [upload EXCEPT !.failedFiles = @ + 1])
             /\ Rerender(showOCR, scannedPDF, signal, isRunning)
             /\ UNCHANGED scannedFileName
          \/ /\ r.kind = "Error"
             /\ r.error.code = "PDF_SCANNED" /\ r.error.pdfDoc # 0
             /\ scannedFileName' = d
             /\ appState' = "IDLE"
             /\ upload' = NoUpload
             /\ ext' = ExtIdle
             /\ Rerender(TRUE, r.error.pdfDoc, signal, isRunning)
             /\ UNCHANGED <<errorMsg, extractedText, uploadedFileNames>>
          \/ /\ r.kind = "Error"
             /\ ~(r.error.code = "PDF_SCANNED" /\ r.error.pdfDoc # 0)
             /\ IF Len(upload.files) = 1
                THEN /\ appState' = "ERROR"
                     /\ errorMsg' = r.error.msg
                     /\ upload' = NoUpload
                     /\ ext' = ExtIdle
                     /\ UNCHANGED <<extractedText, uploadedFileNames>>
                ELSE UploadContinue([upload EXCEPT !.failedFiles = @ + 1])
             /\ Rerender(showOCR, scannedPDF, signal, isRunning)
             /\ UNCHANGED scannedFileName
    /\ UNCHANGED <<mode, docPages, staleUse, ocr, nextDoc, currentFileUri, notified,
                 fileUpload, gen, quiz>>

\* App.handleOCRComplete, as captured by the OCRRunner of document d
handleOCRComplete(d) ==
    /\ extractedText' = Append(extractedText, [doc |-> d, src |-> "ocr"])
    /\ uploadedFileNames' = Append(uploadedFileNames, d)
    /\ appState' = "FILE_REVIEW"
    /\ Rerender(FALSE, 0, signal, FALSE)
    /\ UNCHANGED errorMsg

\* App.handleOCRCancel
handleOCRCancel(sig) ==
    /\ appState' = IF Len(uploadedFileNames) > 0 THEN "FILE_REVIEW" ELSE "IDLE"
    /\ Rerender(FALSE, 0, sig, isRunning)
    /\ UNCHANGED <<errorMsg, extractedText, uploadedFileNames>>

\* the onError prop App gives the OCRRunner
onError(msg) ==
    /\ appState' = "ERROR"
    /\ errorMsg' = msg
    /\ Rerender(FALSE, scannedPDF, signal, FALSE)
    /\ UNCHANGED <<extractedText, uploadedFileNames>>

\* App.resetApp: the logo and the restart button of the navigation bar
resetApp ==
    /\ mode = "App"
    /\ ~Mounted(showOCR, scannedPDF, scannedPDF)
    /\ appState' = "IDLE"
    /\ errorMsg' = <<>>
    /\ extractedText' = <<>>
    /\ uploadedFileNames' = <<>>
    /\ currentFileUri' = 0
    /\ Rerender(FALSE, 0, signal, isRunning)
    /\ UNCHANGED <<mode, docPages, staleUse, ext, ocr, scannedFileName, upload, nextDoc, notified,
                 fileUpload, gen, quiz>>

\* the retry button of the error screen
ErrorRetry ==
    /\ mode = "App"
    /\ appState = "ERROR" /\ errorMsg # <<>>
    /\ ~Mounted(showOCR, scannedPDF, scannedPDF)
    /\ appState' = "FILE_REVIEW"
    /\ UNCHANGED <<mode, handle, docPages, destroyed, staleUse, ext, ocr, signal, showOCR,
                   scannedPDF, scannedFileName, uploadedFileNames, extractedText, errorMsg,
                   upload, isRunning, nextDoc, currentFileUri, notified,
                 fileUpload, gen, quiz>>

\* App.handleCloudUploadSuccess, the onUploaded prop of the FileUpload of the IDLE
\* screen: the file the user chose is named by its uri
handleCloudUploadSuccess ==
    /\ mode = "App"
    /\ appState = "IDLE" /\ ~showOCR
    /\ nextDoc <= MaxDocs
    /\ extractedText' = <<>>
    /\ currentFileUri' = nextDoc
    /\ uploadedFileNames' = <<nextDoc>>
    /\ nextDoc' = nextDoc + 1
    /\ appState' = "FILE_REVIEW"
    /\ UNCHANGED <<mode, handle, docPages, destroyed, staleUse, ext, ocr, signal, showOCR,
                   scannedPDF, scannedFileName, errorMsg, upload, isRunning, notified,
                   fileUpload, gen, quiz>>

\* the continue button of the review screen
ContinueToConfiguring ==
    /\ mode = "App"
    /\ appState = "FILE_REVIEW"
    /\ ~Mounted(showOCR, scannedPDF, scannedPDF)
    /\ appState' = "CONFIGURING"
    /\ UNCHANGED <<mode, handle, docPages, destroyed, staleUse, ext, ocr, signal, showOCR,
                   scannedPDF, scannedFileName, uploadedFileNames, extractedText, errorMsg,
                   upload, isRunning, nextDoc, currentFileUri, notified, fileUpload, gen, quiz>>

\* the onCancel prop of the DifficultySelector, rendered when extractedFileName is set
ConfiguringCancel ==
    /\ mode = "App"
    /\ appState = "CONFIGURING" /\ uploadedFileNames # <<>>
    /\ ~Mounted(showOCR, scannedPDF, scannedPDF)
    /\ appState' = "FILE_REVIEW"
    /\ UNCHANGED <<mode, handle, docPages, destroyed, staleUse, ext, ocr, signal, showOCR,
                   scannedPDF, scannedFileName, uploadedFileNames, extractedText, errorMsg,
                   upload, isRunning, nextDoc, currentFileUri, notified, fileUpload, gen, quiz>>

\* --------------------------------------------------- components/OCRRunner.tsx
\* mutant: the message is compared with the internal abort code
IsCancelledByCode(msg) == msg = OcrAbortedMsg

\* err.message === "Da huy qua trinh OCR." (the cancelled error of runOCRFromPDF)
IsCancelled(msg) == msg = OcrCancelledMsg

\* OCRRunner.handleStart up to the await of runOCRFromPDF
handleStart ==
    /\ mode = "App"
    /\ Mounted(showOCR, scannedPDF, scannedPDF)
    /\ ~isRunning
    /\ isRunning' = TRUE
    /\ signal' = [signal EXCEPT ![scannedPDF] = "live"]
    /\ ocr' = [ocr EXCEPT ![scannedPDF] = OcrCall("runner", RunnerMaxPages, DefaultBatchSize)]
    /\ UNCHANGED <<mode, handle, docPages, destroyed, staleUse, ext, appState, showOCR,
                   scannedPDF, scannedFileName, uploadedFileNames, extractedText, errorMsg,
                   upload, nextDoc, currentFileUri, notified,
                 fileUpload, gen, quiz>>

\* OCRRunner.handleCancel: the cancel button shown while running
handleCancel ==
    /\ mode = "App"
    /\ Mounted(showOCR, scannedPDF, scannedPDF)
    /\ isRunning
    /\ handleOCRCancel(IF signal[scannedPDF] # "none"
                       THEN [signal EXCEPT ![scannedPDF] = "aborted"] ELSE signal)
    /\ UNCHANGED <<mode, docPages, staleUse, ext, ocr, scannedFileName, upload, nextDoc, currentFileUri, notified,
                 fileUpload, gen, quiz>>

\* the skip button shown before the run: onClick={onCancel}
SkipFile ==
    /\ mode = "App"
    /\ Mounted(showOCR, scannedPDF, scannedPDF)
    /\ ~isRunning
    /\ handleOCRCancel(signal)
    /\ UNCHANGED <<mode, docPages, staleUse, ext, ocr, scannedFileName, upload, nextDoc, currentFileUri, notified,
                 fileUpload, gen, quiz>>

\* the await of runOCRFromPDF in handleStart settles
RunnerSettled(d) ==
    /\ mode = "App"
    /\ ocr[d].pc = "returned"
    /\ ocr[d].caller = "runner"
    /\ LET r == ocr[d].result
       IN \/ /\ r.kind = "text"
             /\ handleOCRComplete(d)
             /\ notified' = [notified EXCEPT ![d] = "onComplete"]
          \/ /\ r.kind = "error"
             /\ IsCancelled(r.msg)
             /\ Rerender(showOCR, scannedPDF, signal, IF scannedPDF = d THEN FALSE ELSE isRunning)
             /\ notified' = [notified EXCEPT ![d] = "cancelled"]
             /\ UNCHANGED <<appState, errorMsg, extractedText, uploadedFileNames>>
          \/ /\ r.kind = "error"
             /\ ~IsCancelled(r.msg)
             /\ onError(r.msg)
             /\ notified' = [notified EXCEPT ![d] = "onError"]
    /\ ocr' = [ocr EXCEPT ![d] = Settled([ocr[d] EXCEPT !.result = NoResult], "settled")]
    /\ UNCHANGED <<mode, docPages, staleUse, ext, scannedFileName, upload, nextDoc, currentFileUri,
                 fileUpload, gen, quiz>>

\* ------------------------------------------- one call of extractTextFromPDF
InitApp ==
    /\ appState = "IDLE"
    /\ showOCR = FALSE
    /\ scannedPDF = 0
    /\ scannedFileName = 0
    /\ uploadedFileNames = <<>>
    /\ extractedText = <<>>
    /\ errorMsg = <<>>
    /\ upload = NoUpload
    /\ isRunning = FALSE
    /\ nextDoc = 1
    /\ currentFileUri = 0
    /\ notified = [d \in Docs |-> "none"]

InitDocs ==
    /\ handle = [d \in Docs |-> "unopened"]
    /\ docPages = [d \in Docs |-> 0]
    /\ destroyed = [d \in Docs |-> 0]
    /\ staleUse = [d \in Docs |-> FALSE]
    /\ ocr = [d \in Docs |-> OcrIdle]
    /\ signal = [d \in Docs |-> "none"]

Init ==
    /\ mode = "direct"
    /\ InitDocs
    /\ InitApp
    /\ gen = GenIdle
    /\ quiz = QuizIdle
    /\ fileUpload = Mount(TRUE)
    /\ \E b \in BOOLEAN : ext = [ExtIdle EXCEPT !.pc = "readFile", !.doc = 1, !.enableOCR = b]

Next ==
    \/ extractTextFromPDF
    \/ runOCRFromPDF(1)

Spec == Init /\ [][Next]_vars

\* ------------------------------------------------------- the application
AppInit ==
    /\ mode = "App"
    /\ InitDocs
    /\ InitApp
    /\ gen = GenIdle
    /\ quiz = QuizIdle
    /\ fileUpload = Mount(TRUE)
    /\ ext = ExtIdle

AppNext ==
    \/ handleFileUpload
    \/ ExtReadFile
    \/ ExtLoadProgress
    \/ ExtOpen
    \/ ExtPage
    \/ ExtClassify
    \/ UploadSettled
    \/ handleStart
    \/ handleCancel
    \/ SkipFile
    \/ \E d \in Docs : runOCRFromPDF(d)
    \/ \E d \in Docs : RunnerSettled(d)
    \/ resetApp
    \/ ErrorRetry
    \/ handleCloudUploadSuccess
    \/ ContinueToConfiguring
    \/ ConfiguringCancel

SpecApp == AppInit /\ [][AppNext]_vars

\* -------------------------------------------------- one call of runOCRFromPDF
\* options.maxPages and options.batchSize of the call
MaxPagesOptions == (0..MaxCap) \cup {DefaultMaxPages}

BatchSizeOptions == (0..MaxBatch) \cup {DefaultBatchSize}

OcrInit ==
    /\ mode = "ocr"
    /\ InitApp
    /\ gen = GenIdle
    /\ quiz = QuizIdle
    /\ fileUpload = Mount(TRUE)
    /\ ext = ExtIdle
    /\ handle = [d \in Docs |-> IF d = 1 THEN "open" ELSE "unopened"]
    /\ destroyed = [d \in Docs |-> 0]
    /\ staleUse = [d \in Docs |-> FALSE]
    /\ \E n \in 0..MaxPages : docPages = [d \in Docs |-> IF d = 1 THEN n ELSE 0]
    /\ \E m \in MaxPagesOptions : \E b \in BatchSizeOptions :
          ocr = [d \in Docs |-> IF d = 1 THEN OcrCall("direct", m, b) ELSE OcrIdle]
    /\ \E sig \in {"none", "live"} : signal = [d \in Docs |-> IF d = 1 THEN sig ELSE "none"]

\* the caller aborts the controller whose signal it passed
Abort ==
    /\ mode = "ocr"
    /\ signal[1] = "live"
    /\ signal' = [signal EXCEPT ![1] = "aborted"]
    /\ UNCHANGED <<mode, handle, docPages, destroyed, staleUse, ext, ocr, appVars, fileUpload, gen, quiz>>

OcrNext ==
    \/ runOCRFromPDF(1)
    \/ Abort

SpecOcr == OcrInit /\ [][OcrNext]_vars

\* every await of the call settles: a step of the call that is possible is taken
SpecOcrLive == OcrInit /\ [][OcrNext]_vars /\ WF_vars(runOCRFromPDF(1))

\* ------------------------------------------- the FileUpload component alone
UploadInit ==
    /\ mode = "upload"
    /\ InitDocs
    /\ InitApp
    /\ gen = GenIdle
    /\ quiz = QuizIdle
    /\ ext = ExtIdle
    /\ \E onUploaded \in BOOLEAN : fileUpload = Mount(onUploaded)

SpecUpload == UploadInit /\ [][FileUploadNext]_vars

\* ------------------------------------------ one call of generateQuizFromText
GenInit ==
    /\ mode = "gen"
    /\ InitDocs
    /\ appState = "IDLE"
    /\ showOCR = FALSE
    /\ scannedPDF = 0
    /\ scannedFileName = 0
    /\ uploadedFileNames = <<>>
    /\ extractedText = <<>>
    /\ errorMsg = <<>>
    /\ upload = NoUpload
    /\ isRunning = FALSE
    /\ nextDoc = 1
    /\ currentFileUri = 0
    /\ notified = [d \in Docs |-> "none"]
    /\ ext = ExtIdle
    /\ fileUpload = Mount(TRUE)
    /\ \E n \in QuestionCounts \cup {0} : \E source \in {"file", "web"} :
          \E previous \in 0..MaxPrevious : gen = GenCall(n, source, previous * n)
    /\ quiz = QuizIdle

SpecGen == GenInit /\ [][generateQuizFromText]_vars

\* ------------------------------------------------ one mount of QuizPlayer
QuizInit ==
    /\ mode = "quiz"
    /\ InitDocs
    /\ InitApp
    /\ gen = GenIdle
    /\ ext = ExtIdle
    /\ fileUpload = Mount(TRUE)
    /\ \E m \in StudyModes : \E n \in 0..MaxQuestions :
          \E d \in IF m = "exam" THEN ExamDurations ELSE {0} : quiz = QuizMount(m, n, d)

SpecQuiz == QuizInit /\ [][QuizPlayer]_vars

\* ------------------------------ two calls of extractTextFromPDF on one file
TwiceInit ==
    /\ mode = "twice"
    /\ InitDocs
    /\ InitApp
    /\ gen = GenIdle
    /\ quiz = QuizIdle
    /\ fileUpload = Mount(TRUE)
    /\ \E b \in BOOLEAN : ext = [ExtCall(1) EXCEPT !.enableOCR = b]

\* the first call has settled on a file it could open: the caller passes the same
\* file and the same options again; what the second call finds in the file is what
\* the first call found, and only the 5 s timer of a text fetch can fall differently
ExtAgain ==
    /\ mode = "twice"
    /\ ext.pc = "done"
    /\ ext.run = 1
    /\ ~ext.enableOCR                                \* the text path only
    /\ handle[ext.doc] = "open"
    /\ ext' = [ExtCall(ext.doc) EXCEPT !.run = 2,
                                       !.content = ext.content,
                                       !.first = [outcome |-> ext.outcome,
                                                  timedOut |-> ext.timedOut]]
    /\ UNCHANGED <<mode, handle, docPages, destroyed, staleUse, ocr, signal, appVars, fileUpload, gen, quiz>>

TwiceNext ==
    \/ extractTextFromPDF
    \/ runOCRFromPDF(1)
    \/ ExtAgain

SpecTwice == TwiceInit /\ [][TwiceNext]_vars

\* ------------------------------------- one call of runOCRFromPDF, page images
ImageInit ==
    /\ mode = "image"
    /\ InitApp
    /\ gen = GenIdle
    /\ quiz = QuizIdle
    /\ fileUpload = Mount(TRUE)
    /\ ext = ExtIdle
    /\ handle = [d \in Docs |-> IF d = 1 THEN "open" ELSE "unopened"]
    /\ destroyed = [d \in Docs |-> 0]
    /\ staleUse = [d \in Docs |-> FALSE]
    /\ \E n \in 1..2 : docPages = [d \in Docs |-> IF d = 1 THEN n ELSE 0]
    /\ \E enhanceVisibility \in BOOLEAN :
          ocr = [d \in Docs |->
                    IF d = 1
                    THEN [OcrCall("direct", DefaultMaxPages, DefaultBatchSize)
                             EXCEPT !.enhance = enhanceVisibility]
                    ELSE OcrIdle]
    /\ signal = [d \in Docs |-> "none"]

SpecImage == ImageInit /\ [][runOCRFromPDF(1)]_vars

\* ------------------------------------------------------------------ claims
ExtChars == Len(Trim(ext.fullText))

ScannedSignal(x, d) ==
    /\ x.pc = "done"
    /\ x.outcome.kind = "Error"
    /\ x.outcome.error.code = "PDF_SCANNED"
    /\ x.outcome.error.pdfDoc = d

EncodingFailure(x) ==
    /\ x.pc = "done"
    /\ x.outcome.kind = "Error"
    /\ x.outcome.error.code # "PDF_SCANNED"
    /\ x.outcome.error.msg = EncodingMsg

OcrStarted(x, d) == x.pc = "ocr" /\ ocr'[d].pc = "createWorker" /\ ocr'[d].caller = "extract"

\* C1: below the character floor the outcome follows the meaningful-run count alone:
\* fewer than MIN_ITEMS_TOTAL runs give the scanned outcome (the PDF_SCANNED signal,
\* or the OCR run when OCR is enabled), MIN_ITEMS_TOTAL or more give the encoding failure.
C1_BelowCharFloorItemsDecide ==
    [][(ext.pc = "classify" /\ ExtChars < MIN_CHARS_TOTAL) =>
          IF ext.totalItems < MIN_ITEMS_TOTAL
          THEN IF ext.enableOCR THEN OcrStarted(ext', ext.doc) ELSE ScannedSignal(ext', ext.doc)
          ELSE EncodingFailure(ext')]_vars

\* C1 witness: runs that are non-blank but clean to nothing, MIN_ITEMS_TOTAL of them,
\* ended in the encoding failure
C1_Witness ==
    /\ EncodingFailure(ext)
    /\ ext.fullText = <<>>
    /\ ~ext.blankDoc
    /\ ext.totalItems >= MIN_ITEMS_TOTAL

\* C2 as stated: either floor met (characters or runs) gives a Text result
C2_TextWhenEitherFloorMet ==
    (ext.pc = "done" /\ ext.branch # ""
        /\ (ExtChars >= MIN_CHARS_TOTAL \/ ext.totalItems >= MIN_ITEMS_TOTAL))
    => ext.outcome.kind = "Text"

\* C2 amended: the extracted text is returned exactly when the character floor is
\* met, whatever the run count; below it the document is classified
C2_TextIffCharFloor ==
    [][ext.pc = "classify" =>
          /\ (ExtChars >= MIN_CHARS_TOTAL) <=>
                (ext'.pc = "done" /\ ext'.outcome.kind = "Text" /\ ext'.outcome.text = ext.fullText)
          /\ (ExtChars < MIN_CHARS_TOTAL) =>
                \/ OcrStarted(ext', ext.doc)
                \/ ScannedSignal(ext', ext.doc)
                \/ EncodingFailure(ext')]_vars

\* C2 witness: a Text result with the character floor met and the run floor not met
C2_Witness ==
    /\ ext.pc = "done"
    /\ ext.outcome.kind = "Text"
    /\ ExtChars >= MIN_CHARS_TOTAL
    /\ ext.totalItems < MIN_ITEMS_TOTAL

\* C3: a document whose pages all have no meaningful run ends, without OCR, in the
\* scanned signal carrying the open handle with its page count
C3_BlankDocumentIsScanned ==
    (ext.pc = "done" /\ ext.branch # "" /\ ext.blankDoc /\ ~ext.enableOCR)
    => /\ ScannedSignal(ext, ext.doc)
       /\ handle[ext.doc] = "open"
       /\ docPages[ext.doc] = ext.numPages
       /\ ext.numPages >= 1

\* C3 witness: a multi-page document of blank runs gave the scanned signal
C3_Witness ==
    /\ ScannedSignal(ext, ext.doc)
    /\ ext.blankDoc
    /\ ext.numPages >= 2
    /\ handle[ext.doc] = "open"

OcrRunning(o) ==
    o.pc \in {"createWorker", "getPage", "render", "toBlob", "recognize", "yield", "terminate"}

\* C4: the worker is created at most once per call, used only while the call runs,
\* and terminated before the call settles
C4_WorkerScopedToCall ==
    \A d \in Docs :
        /\ ocr[d].created <= 1
        /\ ocr[d].pc = "recognize" => ocr[d].worker = "active"
        /\ ocr[d].worker = "active" => OcrRunning(ocr[d])
        /\ ocr[d].pc \in {"returned", "settled"} =>
              ocr[d].worker = IF ocr[d].created = 1 THEN "terminated" ELSE "none"

\* C4 witness: a cancelled call settled with its worker terminated
C4_Witness ==
    \E d \in Docs :
        /\ ocr[d].pc = "returned"
        /\ ocr[d].result.msg = OcrCancelledMsg
        /\ ocr[d].worker = "terminated"

\* C5: no page is started while the signal is set, and a check that finds it set
\* ends the call with the cancelled error
C5_AbortCheckedBeforeEachPage ==
    /\ [](\A d \in Docs :
            ocr[d].lastCheck = "aborted" =>
               /\ ocr[d].pc \in {"terminate", "returned", "settled"}
               /\ ocr[d].pc # "settled" =>
                     ocr[d].result = [kind |-> "error", msg |-> OcrCancelledMsg, text |-> <<>>])
    /\ [][\A d \in Docs :
            (ocr'[d].pc = "getPage" /\ (ocr[d].pc # "getPage" \/ ocr'[d].p # ocr[d].p))
               => (signal[d] # "aborted" /\ ocr'[d].lastCheck = "clear")]_vars

\* C5 witness: a check found the signal set and the call rejected as cancelled
C5_Witness ==
    \E d \in Docs :
        /\ ocr[d].lastCheck = "aborted"
        /\ ocr[d].pc = "returned"
        /\ ocr[d].result.msg = OcrCancelledMsg

\* C6: once the signal is set at most one page, the one in flight, is finished, and
\* after it no page is in progress
C6_AtMostOnePageAfterAbort ==
    \A d \in Docs :
        /\ ocr[d].afterAbort <= 1
        /\ (signal[d] = "aborted" /\ ocr[d].afterAbort = 1) =>
              ocr[d].pc \notin {"getPage", "render", "toBlob", "recognize"}

\* C6 witness: a run cancelled with pages left finished only the page in flight
C6_Witness ==
    \E d \in Docs :
        /\ ocr[d].afterAbort = 1
        /\ ocr[d].pc = "returned"
        /\ ocr[d].result.msg = OcrCancelledMsg
        /\ docPages[d] >= 2

\* a component still holds document d
Held(d) ==
    \/ ext.pc # "idle" /\ ext.doc = d
    \/ scannedPDF = d
    \/ OcrRunning(ocr[d])

\* C7: a handle is destroyed at most once, and is destroyed by the time nothing holds it
C7_HandleReleasedExactlyOnce ==
    \A d \in Docs :
        /\ destroyed[d] <= 1
        /\ handle[d] = "open" => Held(d)

\* C8: when extractTextFromPDF has finished, the handle is open exactly for the
\* scanned signal and the Text result
C8_OpenIffScannedOrText ==
    ext.pc = "done" =>
        (handle[ext.doc] = "open" <=> (ScannedSignal(ext, ext.doc) \/ ext.outcome.kind = "Text"))

\* C9: the handle is not destroyed while runOCRFromPDF runs on it, and no page is
\* fetched or rendered from a destroyed handle
C9_NoDestroyDuringOCR ==
    \A d \in Docs :
        /\ OcrRunning(ocr[d]) => handle[d] # "destroyed"
        /\ ~staleUse[d]

\* C10: the step in which OCRRunner receives the cancelled error calls no onError
\* and does not put the application into the ERROR state
C10_CancelNotSurfacedAsError ==
    [][\A d \in Docs :
          (/\ ocr[d].pc = "returned"
           /\ ocr[d].caller = "runner"
           /\ ocr[d].result.msg = OcrCancelledMsg
           /\ ocr'[d].pc = "settled")
          => /\ notified'[d] = "cancelled"
             /\ errorMsg' = errorMsg
             /\ appState' = appState]_vars

\* C10 witness: a cancelled run was received and the application shows no error
C10_Witness ==
    \E d \in Docs : notified[d] = "cancelled" /\ appState # "ERROR"

\* handleStart never runs twice on one document
StartsOncePerDocument ==
    (mode = "App" /\ Mounted(showOCR, scannedPDF, scannedPDF) /\ ~isRunning)
        => ocr[scannedPDF].pc = "idle"

\* the text has the page marker Marker(k) at position j
MarkerAt(text, j, marker) ==
    /\ j + Len(marker) - 1 <= Len(text)
    /\ SubSeq(text, j, j + Len(marker) - 1) = marker

\* the markers of the pages 1..MaxPages, by page number
PageMarkers == [k \in 1..MaxPages |-> PageMarker(k)]

OcrPageMarkers == [k \in 1..MaxPages |-> OcrPageMarker(k)]

\* the page numbers of the markers of a text, in the order they appear
Markers(text, markers) ==
    LET pos == Positions([j \in 1..Len(text) |->
                             /\ text[j] = "-"
                             /\ j + 4 <= Len(text)
                             /\ text[j + 4] = "P"
                             /\ \E k \in 1..Len(markers) : MarkerAt(text, j, markers[k])])
    IN [m \in 1..Len(pos) |->
           CHOOSE k \in 1..Len(markers) : MarkerAt(text, pos[m], markers[k])]

\* a sequence of page numbers strictly ascending
Ascending(seq) == \A j \in 1..(Len(seq) - 1) : seq[j] < seq[j + 1]

NonDecreasing(seq) == \A j \in 1..(Len(seq) - 1) : seq[j] <= seq[j + 1]

Percentages(seq) == \A j \in 1..Len(seq) : seq[j] \in 0..100

\* what the progress callback of the call of extractTextFromPDF has been given: its own
\* reports, then those of the OCR run it passed the callback to
ExtReported ==
    ext.progress \o (IF ext.pc = "ocr" /\ ocr[ext.doc].caller = "extract"
                     THEN ocr[ext.doc].progress ELSE <<>>)

\* C11: the values given to the progress callback of one call of extractTextFromPDF
\* (the OCR it starts included) and of one call of runOCRFromPDF never decrease and
\* are integers from 0 to 100
C11_ProgressNonDecreasing ==
    /\ NonDecreasing(ExtReported)
    /\ Percentages(ExtReported)
    /\ \A d \in Docs : NonDecreasing(ocr[d].progress) /\ Percentages(ocr[d].progress)

\* the pages of the log that ended the way `how` says, in the order of the log
PagesThat(log, how) ==
    LET sel == SelectSeq(log, LAMBDA e : e.how = how)
    IN [j \in 1..Len(sel) |-> sel[j].p]

PageInFlight(o) == o.pc \in {"getPage", "render", "toBlob", "recognize"}

\* the no-text failure as the caller receives it: thrown inside the try block, it
\* passes through the catch block, which puts the generic prefix before its message
NoTextResult == [kind |-> "error", msg |-> OcrGenericPrefix \o OcrNoTextMsg, text |-> <<>>]

\* the loops ran to their end: the call is about to settle with its text or with the
\* no-text failure
Completed(o) ==
    /\ o.pc = "terminate"
    /\ o.result.kind = "text" \/ o.result = NoTextResult

\* C12: for every batch size >= 1 runOCRFromPDF enters the pages 1, 2, ... in that
\* order, each once and one at a time, never a page beyond min(numPages, maxPages); a
\* run that completes has entered all of them, and the OCR markers of its text are the
\* pages that gave text, ascending
C12_PagesAscendingOnce ==
    \A d \in Docs :
        LET o == ocr[d]
            last == Min(docPages[d], o.maxPages)
        IN (OcrRunning(o) /\ o.batchSize >= 1) =>
              /\ Len(o.log) <= last
              /\ \A j \in 1..Len(o.log) : o.log[j].p = j
              /\ \A j \in 1..(Len(o.log) - 1) : o.log[j].how # "started"
              /\ PageInFlight(o) <=> (o.log # <<>> /\ o.log[Len(o.log)].how = "started")
              /\ PageInFlight(o) => o.p = Len(o.log)
              /\ Markers(o.fullText, OcrPageMarkers) = PagesThat(o.log, "text")
              /\ Ascending(Markers(o.fullText, OcrPageMarkers))
              /\ Completed(o) => Len(o.log) = last
              /\ (o.pc = "terminate" /\ o.result.kind = "text") => o.result.text = o.fullText

\* C12 witness: a 3-page document read with maxPages 2 in batches of one page completed
\* with the markers of pages 1 and 2
C12_Witness ==
    /\ Completed(ocr[1])
    /\ docPages[1] = 3
    /\ ocr[1].maxPages = 2
    /\ ocr[1].batchSize = 1
    /\ Markers(ocr[1].result.text, OcrPageMarkers) = <<1, 2>>

\* the members of a set of page numbers in ascending order
SortedSeq(S) ==
    [j \in 1..Cardinality(S) |-> CHOOSE k \in S : Cardinality({m \in S : m < k}) = j - 1]

\* the text extractTextFromPDF holds while it reads the pages, and the text it returns
TextLayerResult == ext.pc = "done" /\ ext.outcome.kind = "Text" /\ ext.outcome.via = "text"

\* C13: the text of an N-page document holds at most N page markers, in strictly
\* ascending page order, one for each page whose cleaned text is not empty and none
\* for the others; this holds for the text being built and for the text returned
C13_MarkersOnePerTextPage ==
    LET built == Markers(ext.fullText, PageMarkers)
    IN /\ ext.pc \in {"page", "classify"} =>
             /\ built = SortedSeq(ext.withText)
             /\ Ascending(built)
             /\ Len(built) <= ext.numPages
       /\ TextLayerResult =>
             /\ Markers(ext.outcome.text, PageMarkers) = SortedSeq(ext.withText)
             /\ Ascending(Markers(ext.outcome.text, PageMarkers))
             /\ ext.withText \subseteq 1..ext.numPages

\* C13 witness: a 3-page document whose second page has no text was returned with the
\* markers of pages 1 and 3
C13_Witness ==
    /\ TextLayerResult
    /\ ext.numPages = 3
    /\ ext.withText = {1, 3}
    /\ Markers(ext.outcome.text, PageMarkers) = <<1, 3>>

\* pageErr.message?.includes('memory') || pageErr.message?.includes('wasm')
SignalsExhaustion(msg) == Includes(msg, "memory") \/ Includes(msg, "wasm")

\* in this step the page in flight of document d ends the way `how` says
PageEnds(d, how) ==
    LET n == Len(ocr[d].log)
    IN /\ PageInFlight(ocr[d])
       /\ Len(ocr'[d].log) >= n
       /\ ocr'[d].log[n].how = how

\* in this step the page in flight of document d fails without resource exhaustion:
\* a plain page error or a null image blob
PageFailsPlainly(d) ==
    \/ PageEnds(d, "blob")
    \/ PageEnds(d, "error") /\ ~SignalsExhaustion(ocr'[d].log[Len(ocr[d].log)].msg)

CancelledResult == [kind |-> "error", msg |-> OcrCancelledMsg, text |-> <<>>]

\* C14: a page that fails without resource exhaustion is counted and skipped: the text
\* so far is kept and the run goes on with the next page (or ends the batch, or stops
\* on a set abort signal); a run whose pages are all done returns the text of the
\* pages that gave some, failed pages or not
C14_PageFailureSkipped ==
    /\ [][\A d \in Docs :
            PageFailsPlainly(d) =>
               /\ ocr'[d].failedPages = ocr[d].failedPages + 1
               /\ ocr'[d].fullText = ocr[d].fullText
               /\ ocr'[d].p = ocr[d].p + 1
               /\ \/ ocr'[d].pc = "getPage" /\ ocr'[d].p <= ocr[d].batchEnd
                  \/ ocr'[d].pc = "yield" /\ ocr'[d].p > ocr[d].batchEnd
                  \/ /\ ocr'[d].pc = "terminate" /\ ocr'[d].p <= ocr[d].batchEnd
                     /\ Aborted(signal[d]) /\ ocr'[d].result = CancelledResult]_vars
    /\ [](\A d \in Docs :
            (/\ ocr[d].pc = "terminate"
             /\ ocr[d].numPages >= 1
             /\ Len(ocr[d].log) = ocr[d].numPages
             /\ \A j \in 1..Len(ocr[d].log) :
                    /\ ocr[d].log[j].how # "started"
                    /\ ~SignalsExhaustion(ocr[d].log[j].msg)
             /\ PagesThat(ocr[d].log, "text") # <<>>)
            => /\ ocr[d].result.kind = "text"
               /\ Markers(ocr[d].result.text, OcrPageMarkers)
                     = PagesThat(ocr[d].log, "text"))

\* C14 witness: page 1 failed with a plain error, page 2 gave no image blob, and the
\* run returned the text of page 3
C14_Witness ==
    /\ ocr[1].pc = "terminate"
    /\ ocr[1].result.kind = "text"
    /\ ocr[1].failedPages = 2
    /\ PagesThat(ocr[1].log, "error") = <<1>>
    /\ PagesThat(ocr[1].log, "blob") = <<2>>
    /\ Markers(ocr[1].result.text, OcrPageMarkers) = <<3>>

ExhaustionResult == [kind |-> "error", msg |-> OcrMemoryMsg, text |-> <<>>]

\* C15: a page error that signals resource exhaustion ends the run in that step with
\* the resource-exhaustion error and no text; no page is entered after it, and the
\* error is neither the cancelled nor the no-text error
C15_ExhaustionAbortsRun ==
    /\ [][\A d \in Docs :
            (PageEnds(d, "error") /\ SignalsExhaustion(ocr'[d].log[Len(ocr[d].log)].msg))
               => ocr'[d].pc = "terminate" /\ ocr'[d].result = ExhaustionResult]_vars
    /\ [](\A d \in Docs : \A j \in 1..Len(ocr[d].log) :
            SignalsExhaustion(ocr[d].log[j].msg) =>
               /\ j = Len(ocr[d].log)
               /\ ocr[d].pc = "terminate"
               /\ ocr[d].result = ExhaustionResult)
    /\ [](ExhaustionResult \notin {CancelledResult, NoTextResult}
            /\ MapOcrError(OcrMemoryMsg) = OcrMemoryMsg)

\* C15 witness: page 1 gave text, page 2 of 3 ran out of memory, and the run ended
\* with the resource-exhaustion error
C15_Witness ==
    /\ ocr[1].pc = "terminate"
    /\ docPages[1] = 3
    /\ Len(ocr[1].log) = 2
    /\ ocr[1].log[1].how = "text"
    /\ SignalsExhaustion(ocr[1].log[2].msg)
    /\ ocr[1].result = ExhaustionResult

\* every page 1..min(numPages, maxPages) was processed, with no cancellation and no
\* fatal error
AllPagesProcessed(d) ==
    /\ ocr[d].created = 1
    /\ ocr[d].lastCheck # "aborted"
    /\ Len(ocr[d].log) = Min(docPages[d], ocr[d].maxPages)
    /\ \A j \in 1..Len(ocr[d].log) :
          ocr[d].log[j].how # "started" /\ ~SignalsExhaustion(ocr[d].log[j].msg)

\* the blocks of the pages that gave text, each headed by its marker
OcrBlocks(log) ==
    LET sel == SelectSeq(log, LAMBDA e : e.how = "text")
    IN Flatten([j \in 1..Len(sel) |-> OcrPageMarker(sel[j].p) \o sel[j].text \o <<"LF", "LF">>])

\* C16: the call fails with the no-text error exactly when all its pages were
\* processed, there was at least one, and the accumulated text is empty; a call that
\* returns, returns the accumulated text, made of one block per page that gave text,
\* each headed by the OCR marker of the page
C16_NoTextIffEmptyAfterAllPages ==
    \A d \in Docs :
        ocr[d].pc = "terminate" =>
           /\ ocr[d].result = NoTextResult
                 <=> /\ AllPagesProcessed(d)
                     /\ Min(docPages[d], ocr[d].maxPages) >= 1
                     /\ ocr[d].fullText = <<>>
           /\ ocr[d].result.kind = "text" =>
                 /\ AllPagesProcessed(d)
                 /\ ocr[d].result.text = ocr[d].fullText
                 /\ ocr[d].result.text = OcrBlocks(ocr[d].log)

\* C16 witness: two pages, one recognized as white space only and one failed, ended
\* in the no-text error
C16_Witness ==
    /\ ocr[1].pc = "terminate"
    /\ ocr[1].result = NoTextResult
    /\ Len(ocr[1].log) = 2
    /\ PagesThat(ocr[1].log, "empty") # <<>>
    /\ ocr[1].failedPages = 1

\* C17: a document classified as an encoding failure is never given to OCR: the step
\* that classifies it starts no OCR run, with the OCR option set or not, and no run
\* has been started when the failure is returned
C17_EncodingNeverOCR ==
    /\ [][(/\ ext.pc = "classify"
           /\ ExtChars < MIN_CHARS_TOTAL
           /\ ext.totalItems >= MIN_ITEMS_TOTAL)
          => (EncodingFailure(ext') /\ ocr' = ocr)]_vars
    /\ [](EncodingFailure(ext) => \A d \in Docs : ocr[d] = OcrIdle)

\* C17 witness: an encoding failure returned by a call that had the OCR option set
C17_Witness ==
    /\ EncodingFailure(ext)
    /\ ext.enableOCR
    /\ ext.branch = "encoding"
    /\ ocr[ext.doc] = OcrIdle

\* the document is classified as scanned in the step from this state
ClassifiedScanned ==
    /\ ext.pc = "classify"
    /\ ExtChars < MIN_CHARS_TOTAL
    /\ ext.totalItems < MIN_ITEMS_TOTAL

\* C18: for a document classified as scanned, a call with the OCR option starts
\* runOCRFromPDF on the handle it opened, returns the text of that run as its Text
\* result (or the OCR failure when the run fails) and never gives the scanned signal;
\* a call without the option starts no OCR run and gives the scanned signal with the
\* handle
C18_ScannedFollowsOcrOption ==
    /\ [][ClassifiedScanned =>
            IF ext.enableOCR
            THEN /\ OcrStarted(ext', ext.doc)
                 /\ ocr[ext.doc] = OcrIdle
                 /\ handle[ext.doc] = "open"
            ELSE /\ ScannedSignal(ext', ext.doc)
                 /\ ocr' = ocr]_vars
    /\ [][(ext.pc = "ocr" /\ ext'.pc # "ocr") =>
            LET r == ocr[ext.doc].result
            IN /\ ocr[ext.doc].pc = "returned"
               /\ ext'.pc = "done"
               /\ IF r.kind = "text"
                  THEN ext'.outcome = [kind |-> "Text", error |-> NoError, text |-> r.text,
                                       pdfDoc |-> ext.doc, via |-> "ocr"]
                  ELSE /\ ext'.outcome.kind = "Error"
                       /\ ext'.outcome.error.code # "PDF_SCANNED"
                       /\ ext'.outcome.error.msg = OcrFailedPrefix \o r.msg]_vars
    /\ [](ext.enableOCR => ~ScannedSignal(ext, ext.doc))
    /\ [](~ext.enableOCR => \A d \in Docs : ocr[d] = OcrIdle)

\* C18 witness: a scanned 2-page document read with the OCR option came back as a Text
\* result holding the OCR text of both pages
C18_Witness ==
    /\ ext.pc = "done"
    /\ ext.enableOCR
    /\ ext.branch = "scanned"
    /\ ext.outcome.kind = "Text"
    /\ ext.outcome.via = "ocr"
    /\ ext.outcome.pdfDoc = ext.doc
    /\ Markers(ext.outcome.text, OcrPageMarkers) = <<1, 2>>

\* the pages of the log whose iteration is over without a fatal error
PagesOver(log) ==
    LET sel == SelectSeq(log, LAMBDA e : e.how # "started" /\ ~SignalsExhaustion(e.msg))
    IN [j \in 1..Len(sel) |-> sel[j].p]

\* C19: every page whose iteration is over, with text, empty or failed without
\* resource exhaustion, has been reported as round(page / totalPages * 100), and a run
\* that completed its pages has reported 100 last
C19_ProgressAfterEveryPage ==
    \A d \in Docs :
        LET o == ocr[d]
            totalPages == Min(docPages[d], o.maxPages)
            over == PagesOver(o.log)
        IN OcrRunning(o) =>
              /\ o.progress = [j \in 1..Len(over) |-> RoundPercent(over[j], totalPages)]
              /\ (Completed(o) /\ totalPages >= 1) =>
                    (o.progress # <<>> /\ o.progress[Len(o.progress)] = 100)

\* C20: a page whose text fetch timed out or failed adds no text, no run and no
\* marker, and the loop goes on with the next page; when the other pages meet the
\* character floor the result is a Text result whose markers are those pages, in
\* ascending order
C20_TimeoutIsEmptyPage ==
    /\ [][ext'.timedOut # ext.timedOut =>
            /\ ext.pc = "page"
            /\ ext'.timedOut = ext.timedOut \cup {ext.i}
            /\ ext'.fullText = ext.fullText
            /\ ext'.totalItems = ext.totalItems
            /\ ext'.withText = ext.withText
            /\ ext'.i = ext.i + 1
            /\ ext'.pc = IF ext.i < ext.numPages THEN "page" ELSE "classify"]_vars
    /\ [](ext.pc \in {"page", "classify"} =>
            \A k \in ext.timedOut :
               \A j \in 1..Len(ext.fullText) : ~MarkerAt(ext.fullText, j, PageMarker(k)))
    /\ []((ext.pc = "classify" /\ ext.timedOut # {}) => ext.i = ext.numPages + 1)
    /\ [][(ext.pc = "classify" /\ ext.timedOut # {} /\ ExtChars >= MIN_CHARS_TOTAL) =>
            /\ ext'.pc = "done"
            /\ ext'.outcome.kind = "Text"
            /\ ext'.outcome.text = ext.fullText
            /\ Markers(ext'.outcome.text, PageMarkers)
                  = SortedSeq(ext.withText \ ext.timedOut)]_vars

\* C20 witness: the text fetch of page 2 of 3 timed out and the call returned the text
\* of pages 1 and 3
C20_Witness ==
    /\ TextLayerResult
    /\ ext.numPages = 3
    /\ ext.timedOut = {2}
    /\ Markers(ext.outcome.text, PageMarkers) = <<1, 3>>

\* the text built from a 3-page document whose pages hold "Hello world", nothing and
\* "Second page text": the blocks of pages 1 and 3
ScenarioText ==
    PageMarker(1) \o HelloWorld \o <<"LF", "LF">>
        \o PageMarker(3) \o SecondPageText \o <<"LF", "LF">>

\* all pages of that document have been read
ScenarioRead ==
    /\ ext.pc = "classify"
    /\ ext.numPages = 3
    /\ ext.fullText = ScenarioText
    /\ ext.withText = {1, 3}
    /\ ext.totalItems = 2

\* C21: the 3-page document "Hello world", "", "Second page text" gives a
\* Text result with the blocks of pages 1 and 3
C21_ScenarioGivesText ==
    [][ScenarioRead =>
          /\ ext'.pc = "done"
          /\ ext'.outcome.kind = "Text"
          /\ Markers(ext'.outcome.text, PageMarkers) = <<1, 3>>]_vars

\* what the code does with that document: the two blocks of pages 1 and 3 are built in
\* that order, with no block for the empty page, but their 59 characters are below
\* the character floor and the two runs below the run floor, so the document is
\* classified as scanned (the scanned signal with the handle, or the OCR run when OCR
\* is enabled)
ScenarioBelowFloorIsScanned ==
    [][ScenarioRead =>
          /\ Markers(ext.fullText, PageMarkers) = <<1, 3>>
          /\ ExtChars = 59
          /\ IF ext.enableOCR THEN OcrStarted(ext', ext.doc) ELSE ScannedSignal(ext', ext.doc)
          /\ ~EncodingFailure(ext')
          /\ ext'.outcome.kind # "Text"]_vars

\* the document was read and ended in the scanned signal
ScenarioScannedSignal ==
    /\ ScannedSignal(ext, ext.doc)
    /\ ext.numPages = 3
    /\ ext.fullText = ScenarioText
    /\ ext.totalItems = 2
    /\ handle[ext.doc] = "open"

\* the call failed with the error whose message is msg
FailedWith(x, msg) ==
    /\ x.pc = "done"
    /\ x.outcome.kind = "Error"
    /\ x.outcome.error.code = ""
    /\ x.outcome.error.msg = msg

\* no page was fetched, nothing was classified and no OCR run was started
NothingProcessed(x) ==
    /\ x.i = 0
    /\ x.fullText = <<>>
    /\ x.totalItems = 0
    /\ x.withText = {}
    /\ x.timedOut = {}
    /\ x.branch = ""
    /\ \A j \in 1..Len(x.progress) : x.progress[j] <= 20
    /\ \A d \in Docs : ocr[d] = OcrIdle

\* C22: a zero-byte file ends the call with the empty-file error before the document
\* is opened, and a document of zero pages ends it with the empty-document error
\* before a page is fetched; in both cases no page is read, nothing is classified and
\* no OCR run is started
C22_EmptyInputFailsEarly ==
    (ext.pc \notin {"idle", "readFile"}) =>
        /\ ext.byteLength = 0 =>
              /\ FailedWith(ext, EmptyFileMsg)
              /\ handle[ext.doc] = "unopened"
              /\ ext.loaded = 0
              /\ NothingProcessed(ext)
        /\ (handle[ext.doc] = "open" /\ docPages[ext.doc] = 0) =>
              /\ FailedWith(ext, EmptyDocumentMsg)
              /\ NothingProcessed(ext)
        /\ ext.pc \in {"page", "classify", "ocr"} =>
              (ext.byteLength > 0 /\ docPages[ext.doc] > 0)

\* C22 witness: after some load progress the document opened with zero pages and the
\* call failed with the empty-document error
C22_Witness ==
    /\ FailedWith(ext, EmptyDocumentMsg)
    /\ handle[ext.doc] = "open"
    /\ docPages[ext.doc] = 0
    /\ ext.progress # <<>>

\* what went wrong when loadingTask.promise rejected with e: the library names an
\* encryption condition PasswordException and a corrupt structure InvalidPDFException
\* or FormatError; a fetch failure means the parsing engine could not be loaded
OpenErrorKind(e) ==
    CASE e.name = "PasswordException" -> "password"
      [] e.name \in {"InvalidPDFException", "FormatError"} -> "invalid"
      [] e.msg \in {<<"Failed to fetch">>,
                    <<"Setting up fake worker failed: ", "error loading dynamically imported module">>,
                    <<"NetworkError when attempting to fetch resource.">>} -> "library"
      [] OTHER -> "generic"

\* the kind of failure that ended the call, by the error thrown inside the try block
CauseKind(e) ==
    CASE e.code = "PDF_SCANNED" -> "scanned"
      [] e \in OpenErrors -> OpenErrorKind(e)
      [] e.msg = EncodingMsg -> "encoding"
      [] OTHER -> "generic"

\* the kind the caller reads from the error it receives
ReportedKind(e) ==
    CASE e.code = "PDF_SCANNED" /\ e.pdfDoc # 0 -> "scanned"
      [] e.msg = PasswordMsg -> "password"
      [] e.msg = InvalidFormatMsg -> "invalid"
      [] e.msg = LibraryLoadMsg -> "library"
      [] e.msg = EncodingMsg -> "encoding"
      [] OTHER -> "generic"

C24_YieldAfterEachBatch ==
    /\ [](\A d \in Docs :
            LET o == ocr[d]
            IN (OcrRunning(o) /\ o.created = 1 /\ o.batchSize >= 1) =>
                  /\ o.sinceYield <= o.batchSize
                  /\ Len(o.log) = Min(o.yields * o.batchSize, o.numPages) + o.sinceYield
                  /\ o.pc = "yield" =>
                        o.sinceYield = Min(o.batchSize, o.numPages - o.yields * o.batchSize)
                  /\ Completed(o) =>
                        /\ o.sinceYield = 0
                        /\ o.yields * o.batchSize >= o.numPages
                        /\ o.yields > 0 => (o.yields - 1) * o.batchSize < o.numPages)
    /\ [][\A d \in Docs :
            Len(ocr'[d].log) > Len(ocr[d].log) => ~Aborted(signal[d])]_vars

\* C24 witness: 3 pages in batches of 2 completed after two yields
C24_Witness ==
    /\ Completed(ocr[1])
    /\ ocr[1].numPages = 3
    /\ ocr[1].batchSize = 2
    /\ ocr[1].yields = 2
    /\ Len(ocr[1].log) = 3

\* the canvas of the page in flight once applyImagePreprocessing has run on it
Preprocessed(o) == o.pc = "toBlob" /\ o.enhanced = "done"

\* every pixel pure black or pure white, its alpha the one page.render drew
BlackOrWhite(o) ==
    /\ Len(o.canvas) = Len(o.raster)
    /\ \A j \in 1..Len(o.canvas) :
          /\ o.canvas[j].a = o.raster[j].a
          /\ \E val \in {0, 255} : o.canvas[j] = Pixel(val, val, val, o.raster[j].a)

\* all the pixels of the raster have one colour
Uniform(raster) == \A j, k \in 1..Len(raster) : raster[j] = raster[k]

\* what the code does: black exactly when the luma as stored in the 8-bit channel
\* by pass 1 is below the threshold
BinarizedByStoredLuma ==
    \A d \in Docs :
        LET o == ocr[d]
        IN Preprocessed(o) =>
              /\ BlackOrWhite(o)
              /\ \A j \in 1..Len(o.raster) :
                    o.canvas[j].r = 0 <=>
                        BelowThreshold(ToUint8Clamped(Luma1000(o.raster[j])) * 1000,
                                       TotalLuma1000(o.raster), Len(o.raster))

\* C25: applyImagePreprocessing leaves every pixel pure black or pure white with its
\* alpha unchanged, black exactly when its luma 0.299 R + 0.587 G + 0.114 B is below
\* 0.9 times the average luma of the image
C25_BinarizedByLuma ==
    \A d \in Docs :
        LET o == ocr[d]
        IN Preprocessed(o) =>
              /\ BlackOrWhite(o)
              /\ \A j \in 1..Len(o.raster) :
                    o.canvas[j].r = 0 <=>
                        BelowThreshold(Luma1000(o.raster[j]),
                                       TotalLuma1000(o.raster), Len(o.raster))

\* C26: a raster of one colour comes out all white, whatever the colour
C26_UniformTurnsWhite ==
    \A d \in Docs :
        LET o == ocr[d]
        IN (Preprocessed(o) /\ Uniform(o.raster)) =>
              \A j \in 1..Len(o.canvas) : o.canvas[j].r = 255

\* a uniform raster whose luma is stored as at least 1, or is 0, comes out white
UniformTurnsWhiteFromHalf ==
    \A d \in Docs :
        LET o == ocr[d]
        IN (/\ Preprocessed(o)
            /\ Uniform(o.raster)
            /\ Luma1000(o.raster[1]) = 0 \/ Luma1000(o.raster[1]) > 500) =>
              \A j \in 1..Len(o.canvas) : o.canvas[j].r = 255

\* C27: a failure of the image preprocessing leaves the canvas as page.render drew
\* it, does not count the page as failed and does not end the run: the page goes on
\* to canvas.toBlob and worker.recognize
C27_PreprocessingFailureSkipped ==
    /\ [](\A d \in Docs :
            LET o == ocr[d]
            IN o.enhanced = "failed" =>
                  /\ o.pc \in {"toBlob", "recognize"}
                  /\ o.pc = "toBlob" => o.canvas = o.raster
                  /\ o.result = NoResult
                  /\ o.log[Len(o.log)] = PageEntry(o.p, "started", <<>>, <<>>))
    /\ [][\A d \in Docs :
            (ocr[d].pc = "render" /\ ocr'[d].enhanced = "failed") =>
                /\ ocr'[d].pc = "toBlob"
                /\ ocr'[d].failedPages = ocr[d].failedPages
                /\ ocr'[d].fullText = ocr[d].fullText
                /\ ocr'[d].log = ocr[d].log]_vars

\* C27 witness: the second page of a run is with worker.recognize although its
\* preprocessing failed
C27_Witness ==
    /\ ocr[1].pc = "recognize"
    /\ ocr[1].enhanced = "failed"
    /\ ocr[1].p = 2

\* the second of two calls on one file has settled
SecondDone == ext.run = 2 /\ ext.pc = "done"

\* C28: two calls of extractTextFromPDF on the same file, without the OCR option,
\* settle alike: the same result or error and the same text
C28_SameFileSameOutcome ==
    SecondDone => ext.outcome = ext.first.outcome

\* two calls in which no text fetch timed out do settle alike
SameOutcomeWithoutTimeouts ==
    (SecondDone /\ ext.timedOut = {} /\ ext.first.timedOut = {}) =>
        ext.outcome = ext.first.outcome

\* the first call returned text and the second, on the same file, failed
TextThenError ==
    /\ SecondDone
    /\ ext.first.outcome.kind = "Text"
    /\ ext.outcome.kind = "Error"

\* the file of the last selection passes the validation of the cloud upload
ValidCloudFile(file) == file.type = "application/pdf" /\ file.size <= MaxCloudBytes

\* C29: the cloud upload calls the upload service only for a selected file of type
\* application/pdf and of at most 50 MB; the selection of any other file calls no
\* service, enters no upload state and shows a validation error
C29_ServiceOnlyForValidPdf ==
    /\ [](fileUpload.isUploading => ValidCloudFile(fileUpload.file))
    /\ [][fileUpload'.calls > fileUpload.calls => ValidCloudFile(fileUpload'.file)]_vars
    /\ [][(fileUpload'.selects > fileUpload.selects /\ ~ValidCloudFile(fileUpload'.file)) =>
            /\ fileUpload'.calls = 0
            /\ ~fileUpload'.isUploading
            /\ fileUpload'.controller = "none"
            /\ fileUpload'.uploadProgress = fileUpload.uploadProgress
            /\ ShowsError(fileUpload')
            /\ fileUpload'.error \in {PdfOnlyMsg, TooLargeMsg}]_vars

\* C29 witness: a PDF one byte over the limit was selected after an upload that
\* succeeded, and the size error is shown
C29_Witness ==
    /\ fileUpload.selects = 2
    /\ fileUpload.file.type = "application/pdf"
    /\ fileUpload.file.size = MaxCloudBytes + 1
    /\ fileUpload.error = TooLargeMsg
    /\ fileUpload.calls = 0

UploadWasRejected == fileUpload.settled = "rejected"

\* what the code does on a rejection: the message picked by the code of the error is
\* shown, the message of the error itself only for a code the switch does not know
RejectionShowsFriendlyMessage ==
    /\ [](UploadWasRejected =>
            /\ fileUpload.error = FriendlyMessage(fileUpload.cause)
            /\ ShowsError(fileUpload)
            /\ ~ShowsSuccess(fileUpload)
            /\ ~fileUpload.isUploading
            /\ fileUpload.controller = "none")
    /\ [][(fileUpload'.settled = "rejected" /\ fileUpload.settled # "rejected") =>
            fileUpload'.uploaded = fileUpload.uploaded]_vars

\* C31: when the upload service rejects, FileUpload shows the message of the
\* rejection, does not call onUploaded, shows no success message and leaves the
\* uploading state
C31_RejectionMessageShown ==
    /\ [](UploadWasRejected =>
            /\ fileUpload.error = fileUpload.cause.msg
            /\ ~ShowsSuccess(fileUpload)
            /\ ~fileUpload.isUploading
            /\ fileUpload.controller = "none")
    /\ [][(fileUpload'.settled = "rejected" /\ fileUpload.settled # "rejected") =>
            fileUpload'.uploaded = fileUpload.uploaded]_vars

\* the rejection of the test: code NETWORK_ERROR, message "Network error"
NetworkErrorRejected ==
    /\ UploadWasRejected
    /\ fileUpload.cause = UploadErr("NETWORK_ERROR", <<"Network error">>)
    /\ fileUpload.error = UploadNetworkMsg

\* C32: once the OCR run of a document is cancelled (cancel button or unmount of the
\* OCRRunner), its settling calls neither onComplete nor onError: no OCR text and no
\* file name is added, and the application does not enter the ERROR state
C32_NoCallbackAfterCancel ==
    [][\A d \in Docs :
          (Aborted(signal[d]) /\ notified'[d] # notified[d]) =>
              /\ notified'[d] = "cancelled"
              /\ extractedText' = extractedText
              /\ uploadedFileNames' = uploadedFileNames
              /\ appState' # "ERROR"]_vars

\* what does hold: a cancelled run whose call rejects with the cancelled error is
\* dropped without a callback
CancelledErrorIsSilent ==
    [][\A d \in Docs :
          (/\ ocr[d].pc = "returned"
           /\ ocr[d].caller = "runner"
           /\ ocr[d].result = CancelledResult
           /\ notified'[d] # notified[d]) =>
              /\ notified'[d] = "cancelled"
              /\ extractedText' = extractedText
              /\ uploadedFileNames' = uploadedFileNames
              /\ appState' = appState]_vars

\* the run was cancelled while its last page was in flight, and its text was added
CompletedAfterCancel ==
    \E d \in Docs :
        /\ Aborted(signal[d])
        /\ notified[d] = "onComplete"
        /\ appState = "FILE_REVIEW"
        /\ \E j \in 1..Len(extractedText) : extractedText[j] = [doc |-> d, src |-> "ocr"]

\* the run was cancelled and the error of its page in flight reached onError
ErrorAfterCancel ==
    \E d \in Docs :
        /\ Aborted(signal[d])
        /\ notified[d] = "onError"
        /\ appState = "ERROR"

\* C33: runOCRFromPDF settles, with a result or an error, for every page count,
\* maxPages and batchSize, 0 included, when each of its awaits settles
C33_AlwaysSettles == <>(ocr[1].pc = "returned")

\* with a batch size of at least 1 the call does settle
SettlesForPositiveBatchSize ==
    (ocr[1].batchSize >= 1) => <>(ocr[1].pc = "returned")

\* a batch size of 0 on a document with pages: the batch loop is back at its yield
\* with i unchanged and no page entered
BatchLoopStuck ==
    /\ ocr[1].pc = "yield"
    /\ ocr[1].batchSize = 0
    /\ ocr[1].i = 1
    /\ ocr[1].numPages >= 1
    /\ ocr[1].log = <<>>

\* JSON.parse rejected the text of the response
ParseFailure(e) == e.name = "SyntaxError"

\* the shape of the attempts and of the final error, for a given reading of "the
\* first response failed to parse"
AttemptsFollow(g, parseFailed) ==
    /\ Len(g.attempts) \in 1..3
    /\ g.attempts[1] = Attempt(g.numQuestions, "none")
    /\ Len(g.attempts) >= 2 =>
          /\ parseFailed
          /\ g.attempts[2] = Attempt(g.numQuestions, "retry")
    /\ Len(g.attempts) = 3 =>
          /\ Len(g.failures) >= 2
          /\ g.attempts[3] = Attempt(fallbackCount(g.numQuestions), "fallback")
    /\ (Len(g.failures) >= 1 /\ ~parseFailed) =>
          /\ g.pc = "thrown"
          /\ g.error = g.failures[1]
          /\ Len(g.attempts) = 1
    /\ Len(g.failures) = 3 =>
          /\ g.pc = "thrown"
          /\ g.error = GenErr("Error", CannotGenerateMsg)

\* C34: generateQuizFromText makes at most three generation calls; it retries only
\* after a JSON parse failure of the first response, first with the same count and
\* then once with the fallback count; any other first-attempt error is propagated
\* without a retry, and three failures give the single cannot-generate error
C34_RetryOnlyAfterParseFailure ==
    gen.pc # "idle" =>
        AttemptsFollow(gen, Len(gen.failures) >= 1 /\ ParseFailure(gen.failures[1]))

\* what the code does: the retry follows every first error that is a SyntaxError or
\* has JSON in its message
RetryAfterErrorNamingJson ==
    gen.pc # "idle" =>
        AttemptsFollow(gen, Len(gen.failures) >= 1 /\ TakenForParseFailure(gen.failures[1]))

\* a rejection of the API call that names JSON was retried
ApiErrorRetried ==
    /\ Len(gen.attempts) >= 2
    /\ gen.failures[1] = GenErr("ApiError", <<"Invalid JSON payload received.">>)

\* C38: generateQuizFromText never returns data without chapters, on the first
\* attempt, the same-count retry or the fallback retry
C38_ReturnedDataHasChapters ==
    gen.pc = "returned" => gen.data.chapters >= 1

\* the data of the first attempt is never returned without chapters
FirstAttemptHasChapters ==
    (gen.pc = "returned" /\ Len(gen.attempts) = 1) => gen.data.chapters >= 1

\* a retry returned data without chapters
RetryReturnedNoChapters ==
    /\ gen.pc = "returned"
    /\ Len(gen.attempts) >= 2
    /\ gen.data.chapters = 0

\* C39: the fallback count never exceeds the requested count, for every count from
\* 5 to 50 in steps of 5
C39_FallbackWithinRequest ==
    Len(gen.attempts) = 3 => gen.attempts[3].count <= gen.numQuestions

\* from 20 questions on the fallback count does stay within the request
FallbackWithinRequestFrom20 ==
    (Len(gen.attempts) = 3 /\ gen.numQuestions >= FallbackFloor) =>
        gen.attempts[3].count <= gen.numQuestions

\* 5 questions were requested and the fallback attempt asks for 20
FallbackAboveRequest ==
    /\ Len(gen.attempts) = 3
    /\ gen.numQuestions = MinQuestionCount
    /\ gen.attempts[3].count = FallbackFloor

\* a step of one quiz: no restart and no new quiz data
SameQuiz == quiz'.resets = quiz.resets

\* the recorded answer of question i is settled: the question was answered in review
\* mode, or the exam was submitted
AnswerSettled(q, i) ==
    \/ isReviewMode(q) /\ q.userAnswers[i] # ""
    \/ isExamMode(q) /\ q.isExamSubmitted

\* C35: in review mode the recorded answer of a question never changes once it is
\* set, and in exam mode no recorded answer changes after the submission, until the
\* quiz is restarted or new quiz data arrives
C35_LockedAnswersKept ==
    [][SameQuiz =>
          \A i \in QuestionIndices :
             AnswerSettled(quiz, i) => quiz'.userAnswers[i] = quiz.userAnswers[i]]_vars

\* an option was clicked after the submission of an exam with a recorded answer, and
\* handleAnswerSelect returned early
C35_Witness ==
    /\ isExamMode(quiz) /\ quiz.isExamSubmitted
    /\ QuestionShown(quiz)
    /\ isAnswered(quiz)
    /\ quiz.refused

\* the current question of the review mode is shown and has no answer
WaitingForAnswer(q) == isReviewMode(q) /\ QuestionShown(q) /\ ~isAnswered(q)

\* C40: in review mode no input moves to a later question while the current
\* question is unanswered, and in every mode currentIndex stays within
\* 0..(number of questions - 1) of a quiz that has questions
C40_NoSkipAndIndexInRange ==
    /\ [][WaitingForAnswer(quiz) => quiz'.currentIndex <= quiz.currentIndex]_vars
    /\ []((quiz.mode # "none" /\ quiz.n >= 1) => quiz.currentIndex \in 0..(quiz.n - 1))

\* currentIndex stays within the questions of a quiz that has questions
IndexInRange ==
    (quiz.mode # "none" /\ quiz.n >= 1) => quiz.currentIndex \in 0..(quiz.n - 1)

\* the only step that leaves an unanswered question of the review mode for a later
\* one is the right arrow key: the next button waits for the answer
OnlyArrowRightSkips ==
    [][(WaitingForAnswer(quiz) /\ quiz'.currentIndex > quiz.currentIndex) =>
          quiz' = Acted(handleKeyDown(quiz, "ArrowRight"))]_vars

\* review mode, first quiz of the mount: the second question is shown and the first
\* one has no answer
SkippedUnanswered ==
    /\ isReviewMode(quiz) /\ quiz.resets = 0
    /\ quiz.currentIndex = 1
    /\ quiz.userAnswers[0] = ""

\* the files named by a sequence of documents
Named(files) == {files[j] : j \in 1..Len(files)}

\* the call of handleFileUpload ends with this step
BatchEnds == upload.active /\ ~upload'.active

\* the files of the running batch that gave enough text, the one that settles with
\* this step included
ValidOfBatch ==
    Named(upload.validFiles)
    \cup IF /\ ext.outcome.kind = "Text"
            /\ Len(Trim(ext.outcome.text)) >= MIN_FILE_CHARS
         THEN {ext.doc} ELSE {}

\* C37: every file of a batch that gives enough text ends up in extractedText and
\* uploadedFileNames, and every file of the batch is processed, also when another
\* file of the batch is detected as scanned
C37_BatchKeepsValidFiles ==
    [][BatchEnds =>
          /\ ValidOfBatch \subseteq Named(uploadedFileNames')
          /\ ValidOfBatch \subseteq {extractedText'[j].doc : j \in 1..Len(extractedText')}
          /\ upload.idx = Len(upload.files)]_vars

\* what the code does: the same, for a batch that does not end with the OCR prompt
BatchKeepsValidFilesUnlessScanned ==
    [][(BatchEnds /\ ~showOCR') =>
          /\ ValidOfBatch \subseteq Named(uploadedFileNames')
          /\ ValidOfBatch \subseteq {extractedText'[j].doc : j \in 1..Len(extractedText')}
          /\ upload.idx = Len(upload.files)]_vars

\* the OCR prompt is shown for the second file of a batch, and nothing was accepted
ScannedSecondFile ==
    /\ showOCR /\ scannedFileName = 2
    /\ ~upload.active
    /\ uploadedFileNames = <<>>
    /\ handle[1] # "unopened"

\* C36: FILE_REVIEW and CONFIGURING imply that a document has been accepted:
\* uploadedFileNames is not empty and extractedText or currentFileUri is set
C36_ReviewHasDocument ==
    appState \in {"FILE_REVIEW", "CONFIGURING"} =>
        /\ uploadedFileNames # <<>>
        /\ extractedText # <<>> \/ currentFileUri # 0

\* what the code keeps: a file name is never without its content
NamedFileHasContent ==
    uploadedFileNames # <<>> => (extractedText # <<>> \/ currentFileUri # 0)

\* the review screen is shown and nothing was accepted
ReviewOfNothing ==
    /\ appState = "FILE_REVIEW"
    /\ uploadedFileNames = <<>>
    /\ extractedText = <<>> /\ currentFileUri = 0

\* the configuring state is entered with nothing accepted
ConfiguringNothing ==
    /\ appState = "CONFIGURING"
    /\ uploadedFileNames = <<>>

====
